---- MODULE Spec2Model ----
(***************************************************************************)
(* A model of the STAC catalog builder (scripts/11-build_stac_catalog.py): *)
(* partition discovery, extent resolution, item identity, incremental      *)
(* merging and persistence of the catalog under the output directory.      *)
(*                                                                         *)
(* Strings are sequences of one-character strings, paths are sequences of  *)
(* segments, an optional value is <<>> (None) or a non-empty tuple, and an *)
(* instant is a number of hours.                                           *)
(***************************************************************************)
EXTENDS Integers, Sequences, FiniteSets, TLC

VARIABLES
    root,               \* the asset files present under --input-root
    sidecars,           \* partition directories holding metadata.json under --metadata-prefix
    plotfiles,          \* image files present under --plots-prefix
    disk,               \* output dir: the persisted sub-catalog of each kind (items/<kind>)
    collectionJson,     \* output dir: collection.json, <<>> when absent
    assetFiles,         \* output dir: the files copied under assets/
    pc,                 \* position of the run: "idle", "load", "scan"
    args,               \* the arguments of the current (or last) run
    records,            \* discover_assets' result for the current run
    idx,                \* index in records of the next record of the scan loop
    pending,            \* reloaded data items not yet registered (incremental load loop)
    collection,         \* the collection's extent accumulator
    catalogs,           \* the in-memory sub-catalogs: kind -> sequence of items
    has,                \* has_parquet / has_metadata / has_plots
    existing_ids,       \* existing_parquet_ids / existing_metadata_ids / existing_plot_ids
    discovered_models,  \* discovered_models
    runs,               \* number of runs started
    envSteps,           \* number of changes and faults from outside (inputs, output, copies)
    copied,             \* the files whose bytes the current run has copied
    created,            \* number of items the current run has created
    failed,             \* the files whose copy failed in the current run
    warned,             \* the files the current run has warned about (no bounding box)
    history,            \* one summary per completed run
    fin,                \* input of the function under check
    fout                \* its result, or the locals of its loop while it runs

vars == <<root, sidecars, plotfiles, disk, collectionJson, assetFiles, pc, args,
          records, idx, pending, collection, catalogs, has, existing_ids,
          discovered_models, runs, envSteps, copied, created, failed, warned, history,
          fin, fout>>

runVars == <<pc, args, records, idx, pending, collection, catalogs, has,
             existing_ids, discovered_models, copied, created, failed, warned>>

-----------------------------------------------------------------------------
(* Bounds of the model *)

\* runs of the builder in one behaviour
MaxRuns == 2

\* outside changes (to the root, the sidecars, the persisted catalog) and copy
\* failures in one behaviour
MaxEnvSteps == 1

\* items folded into one accumulator in the extent specification
MaxFold == 3

\* largest NETCDF_DOWNLOAD_RETRIES and NETCDF_DOWNLOAD_BACKOFF of the download
\* specification
MaxRetries == 4

MaxBackoff == 3

\* largest number of time slices of a source file in the ingestion specification
MaxSlices == 25

\* largest coordinate of a bbox in the extent specification
MaxCoord == 2

\* cells in one temporal column in the temporal-resolver specification
MaxCells == 2

-----------------------------------------------------------------------------
(* Strings *)

None == <<>>

Some(x) == <<x>>

\* the characters in code-point order (str comparison, used by sort)
Ascii ==
    <<"-", ".", "/", "0", "1", "2", "3", "4", "5", "6", "7", "8", "9", "=",
      "A", "B", "C", "D", "E", "F", "G", "H", "I", "J", "K", "L", "M",
      "N", "O", "P", "Q", "R", "S", "T", "U", "V", "W", "X", "Y", "Z", "_",
      "a", "b", "c", "d", "e", "f", "g", "h", "i", "j", "k", "l", "m",
      "n", "o", "p", "q", "r", "s", "t", "u", "v", "w", "x", "y", "z">>

CodeTable == [c \in {Ascii[i] : i \in 1..Len(Ascii)} |-> CHOOSE i \in 1..Len(Ascii) : Ascii[i] = c]

Code(c) == CodeTable[c]

\* str.lower() on one character
LowerChar(c) ==
    IF Code(c) >= Code("A") /\ Code(c) <= Code("Z")
    THEN Ascii[Code(c) - Code("A") + Code("a")]
    ELSE c

Lower(s) == [i \in 1..Len(s) |-> LowerChar(s[i])]

\* str.replace(a, b) for single characters
Replace(s, a, b) == [i \in 1..Len(s) |-> IF s[i] = a THEN b ELSE s[i]]

\* str.find(c) + 1: 0 when absent
Find(s, c) ==
    IF \E i \in 1..Len(s) : s[i] = c
    THEN CHOOSE i \in 1..Len(s) : s[i] = c /\ \A j \in 1..(i - 1) : s[j] # c
    ELSE 0

\* str.rfind(c) + 1: 0 when absent
RFind(s, c) ==
    IF \E i \in 1..Len(s) : s[i] = c
    THEN CHOOSE i \in 1..Len(s) : s[i] = c /\ \A j \in (i + 1)..Len(s) : s[j] # c
    ELSE 0

EndsWith(s, suffix) ==
    /\ Len(s) >= Len(suffix)
    /\ SubSeq(s, Len(s) - Len(suffix) + 1, Len(s)) = suffix

StartsWith(s, prefix) ==
    /\ Len(s) >= Len(prefix)
    /\ SubSeq(s, 1, Len(prefix)) = prefix

\* a < b in str order
RECURSIVE StrLess(_, _)
StrLess(a, b) ==
    IF b = <<>> THEN FALSE
    ELSE IF a = <<>> THEN TRUE
    ELSE IF Head(a) = Head(b) THEN StrLess(Tail(a), Tail(b))
    ELSE Code(Head(a)) < Code(Head(b))

\* "/".join(segments): str(PurePosixPath)
RECURSIVE PathStr(_)
PathStr(p) ==
    IF p = <<>> THEN <<>>
    ELSE IF Len(p) = 1 THEN p[1]
    ELSE p[1] \o <<"/">> \o PathStr(Tail(p))

Last(s) == s[Len(s)]

\* PurePosixPath.parent
Parent(p) == SubSeq(p, 1, Len(p) - 1)

\* PurePosixPath.stem: the name without its last suffix
Stem(name) ==
    LET i == RFind(name, ".")
    IN  IF i > 1 /\ i < Len(name) THEN SubSeq(name, 1, i - 1) ELSE name

-----------------------------------------------------------------------------
(* Partition coordinates and item identity *)

\* the partition keys an item id is made of
PartitionKeys ==
    [year |-> <<"y", "e", "a", "r">>,
     month |-> <<"m", "o", "n", "t", "h">>,
     day |-> <<"d", "a", "y">>,
     hour |-> <<"h", "o", "u", "r">>]

is_partition_segment(segment) == Find(segment, "=") > 1

\* dict assignment parts[key] = value
Put(parts, key, value) ==
    [k \in (DOMAIN parts) \cup {key} |-> IF k = key THEN value ELSE parts[k]]

EmptyDict == [k \in {} |-> <<>>]

RECURSIVE parse_partitions_from(_, _)
parse_partitions_from(path, parts) ==
    IF path = <<>> THEN parts
    ELSE LET segment == Head(path)
             i == Find(segment, "=")
         IN  IF is_partition_segment(segment)
             THEN parse_partitions_from(Tail(path),
                      Put(parts, SubSeq(segment, 1, i - 1),
                                 SubSeq(segment, i + 1, Len(segment))))
             ELSE parse_partitions_from(Tail(path), parts)

parse_partitions(path) == parse_partitions_from(path, EmptyDict)

\* make_item_id without the final lower(): a fault the identity checks must detect
make_item_id_nolower(record) ==
    IF {PartitionKeys.year, PartitionKeys.month, PartitionKeys.day, PartitionKeys.hour} \subseteq DOMAIN record.partitions
    THEN record.partitions[PartitionKeys.year] \o record.partitions[PartitionKeys.month]
         \o record.partitions[PartitionKeys.day] \o <<"T">> \o record.partitions[PartitionKeys.hour]
    ELSE Replace(Stem(Last(record.relative_path)), ".", "-")

make_item_id(record) ==
    IF {PartitionKeys.year, PartitionKeys.month, PartitionKeys.day, PartitionKeys.hour} \subseteq DOMAIN record.partitions
    THEN record.partitions[PartitionKeys.year] \o record.partitions[PartitionKeys.month]
         \o record.partitions[PartitionKeys.day] \o <<"T">> \o record.partitions[PartitionKeys.hour]
    ELSE Lower(Replace(Stem(Last(record.relative_path)), ".", "-"))

-----------------------------------------------------------------------------
(* Instants and the temporal resolver *)

Min(a, b) == IF a <= b THEN a ELSE b

Max(a, b) == IF a >= b THEN a ELSE b

IsDigits(s) ==
    /\ s # <<>>
    /\ \A i \in 1..Len(s) : Code(s[i]) >= Code("0") /\ Code(s[i]) <= Code("9")

\* int(s) for a string of decimal digits
RECURSIVE ParseInt(_)
ParseInt(s) ==
    IF s = <<>> THEN 0
    ELSE 10 * ParseInt(SubSeq(s, 1, Len(s) - 1)) + (Code(Last(s)) - Code("0"))

\* datetime(year, month, day, hour, tzinfo=utc) as a number of hours; every month
\* is given 31 slots, so the order of instants is the calendar's
Hours(year, month, day, hour) ==
    ((year * 12 + (month - 1)) * 31 + (day - 1)) * 24 + hour

DaysIn(year, month) ==
    IF month \in {4, 6, 9, 11} THEN 30
    ELSE IF month = 2
         THEN (IF year % 4 = 0 /\ (year % 100 # 0 \/ year % 400 = 0) THEN 29 ELSE 28)
         ELSE 31

ValidDate(year, month, day, hour) ==
    /\ year >= 1 /\ year <= 9999
    /\ month >= 1 /\ month <= 12
    /\ day >= 1 /\ day <= DaysIn(year, month)
    /\ hour >= 0 /\ hour <= 23

\* the hour all instants of the model are near: 2025-01-02T00:00Z
T0 == Hours(2025, 1, 2, 0)

\* A cell of a temporal column: k is "null" (None), "dt" (a datetime object),
\* "str" (a parsable ISO-8601 string), "bad" (a string that does not parse) or
\* "other" (a date object, a number); local is the wall-clock hour and tz the UTC
\* offset in hours, None for a naive value.
Cell(k, local, tz) == [k |-> k, local |-> local, tz |-> tz]

\* parse_datetime / ensure_utc: the UTC instant of a wall-clock value
ensure_utc(local, tz) == IF tz = None THEN local ELSE local - tz[1]

parse_datetime(local, tz) == ensure_utc(local, tz)

\* read_timestamp_bounds.parse_array
RECURSIVE parse_array(_)
parse_array(arr) ==
    IF arr = <<>> THEN <<>>
    ELSE LET value == Head(arr)
             rest == parse_array(Tail(arr))
         IN  IF value.k = "dt" THEN <<ensure_utc(value.local, value.tz)>> \o rest
             ELSE IF value.k = "str" THEN <<parse_datetime(value.local, value.tz)>> \o rest
             ELSE rest

SeqMin(s) == CHOOSE x \in {s[i] : i \in 1..Len(s)} : \A j \in 1..Len(s) : x <= s[j]

SeqMax(s) == CHOOSE x \in {s[i] : i \in 1..Len(s)} : \A j \in 1..Len(s) : x >= s[j]

col_candidates ==
    << <<"timestamp">>, <<"datetime">>, <<"time">>, <<"date">>,
       <<"start_datetime", "end_datetime">> >>

\* the candidates whose columns are all in the schema, in candidate order
RECURSIVE present_candidates(_, _)
present_candidates(cands, names) ==
    IF cands = <<>> THEN <<>>
    ELSE (IF \A i \in 1..Len(Head(cands)) : Head(cands)[i] \in names
          THEN <<Head(cands)>> ELSE <<>>)
         \o present_candidates(Tail(cands), names)

\* the loop over `present`: the first candidate with parsed values decides
RECURSIVE scan_candidates(_, _)
scan_candidates(present, cols) ==
    IF present = <<>> THEN <<None, None>>
    ELSE LET names == Head(present)
         IN  IF Len(names) = 2
             THEN LET first_values == parse_array(cols[names[1]])
                      last_values == parse_array(cols[names[2]])
                  IN  IF first_values # <<>> /\ last_values # <<>>
                      THEN <<Some(SeqMin(first_values)), Some(SeqMax(last_values))>>
                      ELSE scan_candidates(Tail(present), cols)
             ELSE LET values == parse_array(cols[names[1]])
                  IN  IF values # <<>>
                      THEN <<Some(SeqMin(values)), Some(SeqMax(values))>>
                      ELSE scan_candidates(Tail(present), cols)

\* cols: the temporal columns of the file, column name -> cells
read_timestamp_bounds(cols) ==
    scan_candidates(present_candidates(col_candidates, DOMAIN cols), cols)

\* partition_datetime without the hour added to the end: a fault the interval
\* check must detect
partition_datetime_instant(partitions) ==
    LET get(key, default) == IF key \in DOMAIN partitions THEN partitions[key] ELSE default
        ys == get(PartitionKeys.year, <<>>)
        ms == get(PartitionKeys.month, <<"1">>)
        ds == get(PartitionKeys.day, <<"1">>)
        hs == get(PartitionKeys.hour, <<"0">>)
    IN  IF PartitionKeys.year \notin DOMAIN partitions
           \/ ~IsDigits(ys) \/ ~IsDigits(ms) \/ ~IsDigits(ds) \/ ~IsDigits(hs)
        THEN [raised |-> FALSE, start |-> None, end |-> None]
        ELSE IF ~ValidDate(ParseInt(ys), ParseInt(ms), ParseInt(ds), ParseInt(hs))
        THEN [raised |-> TRUE, start |-> None, end |-> None]
        ELSE LET start == Hours(ParseInt(ys), ParseInt(ms), ParseInt(ds), ParseInt(hs))
             IN  [raised |-> FALSE, start |-> Some(start), end |-> Some(start)]

\* partition_datetime: <<start, end>>; raised when datetime() rejects the values
partition_datetime(partitions) ==
    LET get(key, default) == IF key \in DOMAIN partitions THEN partitions[key] ELSE default
        ys == get(PartitionKeys.year, <<>>)
        ms == get(PartitionKeys.month, <<"1">>)
        ds == get(PartitionKeys.day, <<"1">>)
        hs == get(PartitionKeys.hour, <<"0">>)
    IN  IF PartitionKeys.year \notin DOMAIN partitions
           \/ ~IsDigits(ys) \/ ~IsDigits(ms) \/ ~IsDigits(ds) \/ ~IsDigits(hs)
        THEN [raised |-> FALSE, start |-> None, end |-> None]
        ELSE IF ~ValidDate(ParseInt(ys), ParseInt(ms), ParseInt(ds), ParseInt(hs))
        THEN [raised |-> TRUE, start |-> None, end |-> None]
        ELSE LET start == Hours(ParseInt(ys), ParseInt(ms), ParseInt(ds), ParseInt(hs))
             IN  [raised |-> FALSE, start |-> Some(start), end |-> Some(start + 1)]

-----------------------------------------------------------------------------
(* The extent accumulator *)

\* float("nan"): the placeholder coordinate of create_collection
NaN == -1

IsNaN(x) == x = NaN

\* merge_bbox with the second box taking over: a fault the extent checks must detect
merge_bbox_overwrite(a, b) ==
    IF a = None THEN b
    ELSE IF b = None THEN a
    ELSE b

merge_bbox(a, b) ==
    IF a = None THEN b
    ELSE IF b = None THEN a
    ELSE <<Min(a[1], b[1]), Min(a[2], b[2]), Max(a[3], b[3]), Max(a[4], b[4])>>

\* update_collection_extent without the comparisons: the item's values take over
update_collection_extent_replace(coll, bbox, start, end) ==
    [bbox  |-> IF bbox # None THEN bbox ELSE coll.bbox,
     start |-> IF start # None THEN start ELSE coll.start,
     end   |-> IF end # None THEN end ELSE coll.end]

\* update_collection_extent taking a missing bbox as the box at the origin: a fault
\* the missing-bbox check must detect
update_collection_extent_origin(coll, bbox, start, end) ==
    [bbox  |-> IF IsNaN(coll.bbox[1]) THEN (IF bbox = None THEN <<0, 0, 0, 0>> ELSE bbox)
               ELSE merge_bbox(coll.bbox, IF bbox = None THEN <<0, 0, 0, 0>> ELSE bbox),
     start |-> IF start # None /\ (coll.start = None \/ start[1] < coll.start[1])
               THEN start ELSE coll.start,
     end   |-> IF end # None /\ (coll.end = None \/ end[1] > coll.end[1])
               THEN end ELSE coll.end]

\* update_collection_extent: the accumulator after folding (bbox, start, end)
update_collection_extent(coll, bbox, start, end) ==
    [bbox  |-> IF bbox # None
               THEN (IF IsNaN(coll.bbox[1]) THEN bbox ELSE merge_bbox(coll.bbox, bbox))
               ELSE coll.bbox,
     start |-> IF start # None /\ (coll.start = None \/ start[1] < coll.start[1])
               THEN start ELSE coll.start,
     end   |-> IF end # None /\ (coll.end = None \/ end[1] > coll.end[1])
               THEN end ELSE coll.end]

\* create_collection starting from the extent of the prior collection.json: a fault
\* the incremental extent check must detect
create_collection_cached(a) ==
    IF a.incremental /\ collectionJson # None
    THEN [bbox |-> collectionJson[1].bbox, start |-> collectionJson[1].start,
          end |-> collectionJson[1].end]
    ELSE [bbox |-> <<NaN, NaN, NaN, NaN>>, start |-> a.temporal_start,
          end |-> a.temporal_end]

\* create_collection: the extent of the collection built from the arguments
create_collection(a) ==
    [bbox |-> <<NaN, NaN, NaN, NaN>>, start |-> a.temporal_start, end |-> a.temporal_end]

-----------------------------------------------------------------------------
(* The files of the model: the assets, one sidecar directory, one plot *)

\* the directory and file names under the input root
Seg ==
    [y2025 |-> <<"y", "e", "a", "r", "=", "2", "0", "2", "5">>,
     m01 |-> <<"m", "o", "n", "t", "h", "=", "0", "1">>,
     m12 |-> <<"m", "o", "n", "t", "h", "=", "1", "2">>,
     m13 |-> <<"m", "o", "n", "t", "h", "=", "1", "3">>,
     d02 |-> <<"d", "a", "y", "=", "0", "2">>,
     h03 |-> <<"h", "o", "u", "r", "=", "0", "3">>,
     h04 |-> <<"h", "o", "u", "r", "=", "0", "4">>,
     misc |-> <<"m", "i", "s", "c">>,
     data |-> <<"d", "a", "t", "a", ".", "p", "a", "r", "q", "u", "e", "t">>,
     extra |-> <<"e", "x", "t", "r", "a", ".", "p", "a", "r", "q", "u", "e", "t">>,
     grid |-> <<"G", "r", "i", "d", ".", "V", "1", ".", "p", "a", "r", "q", "u", "e", "t">>,
     geo |-> <<"a", ".", "b", ".", "g", "e", "o", "p", "a", "r", "q", "u", "e", "t">>,
     plot |-> <<"v", "a", "r", "i", "o", "g", "r", "a", "m", "_", "u", "_", "r", "k", "t",
                "_", "e", "m", "p", "i", "r", "i", "c", "a", "l", "_", "x", ".", "p", "n",
                "g">>,
     notes |-> <<"n", "o", "t", "e", "s", ".", "t", "x", "t">>]

\* the file names, directory names and id suffixes the builder writes
Names ==
    [metadata_json |-> <<"m", "e", "t", "a", "d", "a", "t", "a", ".", "j", "s", "o", "n">>,
     items |-> <<"i", "t", "e", "m", "s">>,
     assets |-> <<"a", "s", "s", "e", "t", "s">>,
     json |-> <<".", "j", "s", "o", "n">>,
     catalog_json |-> <<"c", "a", "t", "a", "l", "o", "g", ".", "j", "s", "o", "n">>,
     collection_json |->
         <<"c", "o", "l", "l", "e", "c", "t", "i", "o", "n", ".", "j", "s", "o", "n">>,
     sfx_metadata |-> <<"-", "m", "e", "t", "a", "d", "a", "t", "a">>,
     sfx_plot |-> <<"-", "p", "l", "o", "t", "-">>,
     png |-> <<".", "p", "n", "g">>,
     grid_points |-> <<"g", "r", "i", "d", "_", "p", "o", "i", "n", "t", "s">>,
     variogram |-> <<"v", "a", "r", "i", "o", "g", "r", "a", "m", "_">>,
     rkt |-> <<"_", "r", "k", "t">>,
     empirical |-> <<"_", "e", "m", "p", "i", "r", "i", "c", "a", "l", "_">>]

\* A file under the root: its path, the embedded geo metadata (None, or the
\* primary column with the bbox recorded for it and the top-level bbox), its
\* longitude/latitude-like columns by name, its temporal columns, the value of its
\* source_model column and its row count.
AssetNames == {"A1", "A2", "A3"}

\* further files: a text file, a partition that is no calendar date, and a file
\* without any temporal information
AllNames == AssetNames \cup {"A4", "A5", "A6"}

Asset(a) ==
    CASE a = "A1" ->
           [path |-> <<Seg.y2025, Seg.m01, Seg.d02, Seg.h03, Seg.data>>,
            geo |-> Some([primary_column |-> Some("geometry"),
                          column_bbox |-> <<0, 0, 1, 1>>, bbox |-> None]),
            coords |-> EmptyDict, cols |-> EmptyDict,
            source_model |-> Some("wrf"), num_rows |-> 10]
      [] a = "A2" ->
           [path |-> <<Seg.y2025, Seg.m01, Seg.d02, Seg.h03, Seg.extra>>,
            geo |-> None,
            coords |-> [c \in {"lon", "lat"} |-> IF c = "lon" THEN <<1, 2>> ELSE <<2, 1>>],
            cols |-> [c \in {"timestamp"} |-> <<Cell("str", T0 + 5, None)>>],
            source_model |-> Some("gfs"), num_rows |-> 20]
      [] a = "A3" ->
           [path |-> <<Seg.misc, Seg.grid>>,
            geo |-> None,
            coords |-> EmptyDict,
            cols |-> [c \in {"start_datetime", "end_datetime"} |->
                        IF c = "start_datetime"
                        THEN <<Cell("dt", T0 + 1, Some(1))>>
                        ELSE <<Cell("null", 0, None), Cell("dt", T0 + 7, None)>>],
            source_model |-> None, num_rows |-> 0]
      [] a = "A4" ->
           [path |-> <<Seg.misc, Seg.notes>>,
            geo |-> None, coords |-> EmptyDict, cols |-> EmptyDict,
            source_model |-> None, num_rows |-> 0]
      [] a = "A5" ->
           [path |-> <<Seg.y2025, Seg.m13, Seg.d02, Seg.h03, Seg.data>>,
            geo |-> None, coords |-> EmptyDict, cols |-> EmptyDict,
            source_model |-> None, num_rows |-> 5]
      [] a = "A6" ->
           [path |-> <<Seg.misc, Seg.geo>>,
            geo |-> Some([primary_column |-> None, column_bbox |-> None,
                          bbox |-> <<1, 0, 2, 1>>]),
            coords |-> EmptyDict,
            cols |-> [c \in {"time"} |-> <<Cell("bad", 0, None), Cell("null", 0, None)>>],
            source_model |-> Some("wrf"), num_rows |-> 3]

\* the plot images that may exist
PlotFiles == {<<Seg.y2025, Seg.m01, Seg.d02, Seg.h03, Seg.plot>>}

-----------------------------------------------------------------------------
(* Spatial resolver and discovery *)

\* load_geo_metadata looking at the top-level bbox first: a fault the bbox checks
\* must detect
load_geo_metadata_top_first(file) ==
    IF file.geo = None THEN <<None, None>>
    ELSE <<file.geo[1].primary_column,
           IF Len(file.geo[1].bbox) = 4 THEN file.geo[1].bbox
           ELSE IF file.geo[1].primary_column # None /\ Len(file.geo[1].column_bbox) = 4
           THEN file.geo[1].column_bbox
           ELSE None>>

\* load_geo_metadata: <<primary_geom, bbox>>
load_geo_metadata(file) ==
    IF file.geo = None THEN <<None, None>>
    ELSE LET geo == file.geo[1]
             col_bbox == IF geo.primary_column # None THEN geo.column_bbox ELSE None
         IN  <<geo.primary_column,
               IF Len(col_bbox) = 4 THEN col_bbox
               ELSE IF Len(geo.bbox) = 4 THEN geo.bbox ELSE None>>

\* next((col for col in candidates if col in schema_names), None)
first_present(candidates, schema_names) ==
    IF \E i \in 1..Len(candidates) : candidates[i] \in schema_names
    THEN Some(candidates[CHOOSE i \in 1..Len(candidates) :
                            /\ candidates[i] \in schema_names
                            /\ \A j \in 1..(i - 1) : candidates[j] \notin schema_names])
    ELSE None

\* scan_lon_lat_bbox: min/max of the first longitude-like and the first
\* latitude-like column of the schema, over all row groups
scan_lon_lat_bbox(file) ==
    LET lon_col == first_present((<<"lon", "longitude", "x">>), DOMAIN file.coords)
        lat_col == first_present((<<"lat", "latitude", "y">>), DOMAIN file.coords)
    IN  IF lon_col = None \/ lat_col = None THEN None
        ELSE IF file.coords[lon_col[1]] = <<>> \/ file.coords[lat_col[1]] = <<>> THEN None
        ELSE <<SeqMin(file.coords[lon_col[1]]), SeqMin(file.coords[lat_col[1]]),
               SeqMax(file.coords[lon_col[1]]), SeqMax(file.coords[lat_col[1]])>>

\* the bbox discover_assets gives a file: that of load_geo_metadata, and the scan
\* when it has none
asset_bbox(file) ==
    IF load_geo_metadata(file)[2] = None THEN scan_lon_lat_bbox(file)
    ELSE load_geo_metadata(file)[2]

\* the interval discover_assets gives a file: the bounds of its temporal columns,
\* and for a bound they lack that of partition_datetime, whose exception ends
\* the run
asset_interval(bounds, part) ==
    [start |-> IF bounds[1] = None THEN part.start ELSE bounds[1],
     end |-> IF bounds[2] = None THEN part.end ELSE bounds[2],
     raised |-> (bounds[1] = None \/ bounds[2] = None) /\ part.raised]

\* the AssetRecord discover_assets builds for one file
asset_record(a) ==
    LET file == Asset(a)
        partitions == parse_partitions(file.path)
        geo == load_geo_metadata(file)
        bbox == asset_bbox(file)
        interval == asset_interval(read_timestamp_bounds(file.cols),
                                   partition_datetime(partitions))
    IN  [asset |-> a,
         relative_path |-> file.path,
         partitions |-> partitions,
         bbox |-> bbox,
         start |-> interval.start,
         end |-> interval.end,
         raised |-> interval.raised,
         row_count |-> file.num_rows,
         primary_geom |-> geo[1]]

RecordTable == [a \in AllNames |-> asset_record(a)]

record_of(a) == RecordTable[a]

extension_filter ==
    {<<".", "p", "a", "r", "q", "u", "e", "t">>,
     <<".", "g", "e", "o", "p", "a", "r", "q", "u", "e", "t">>}

\* records.sort(key=lambda r: str(r.relative_path)) by insertion
RECURSIVE SortedInsert(_, _)
SortedInsert(a, sorted) ==
    IF sorted = <<>> THEN <<a>>
    ELSE IF StrLess(PathStr(Asset(a).path), PathStr(Asset(Head(sorted)).path))
         THEN <<a>> \o sorted
         ELSE <<Head(sorted)>> \o SortedInsert(a, Tail(sorted))

RECURSIVE SortAssets(_)
SortAssets(found) ==
    IF found = <<>> THEN <<>>
    ELSE SortedInsert(found[Len(found)], SortAssets(SubSeq(found, 1, Len(found) - 1)))

\* the orders in which fs.get_file_info may list the files under the root
Listings(files) ==
    {listing \in [1..Cardinality(files) -> files] :
        \A i, j \in DOMAIN listing : listing[i] = listing[j] => i = j}

\* discover_assets without its final sort, the records left in listing order: a
\* fault the order check must detect
list_assets_unsorted(listing) ==
    SelectSeq(listing, LAMBDA a : \E ext \in extension_filter :
                                      EndsWith(Last(Asset(a).path), ext))

\* discover_assets: the names of the matching files in the order listed, then
\* sorted by relative path
list_assets(listing) ==
    SortAssets(SelectSeq(listing, LAMBDA a : \E ext \in extension_filter :
                                                 EndsWith(Last(Asset(a).path), ext)))

\* the result of discover_assets for a set of files, over one of its listings
DiscoverTable ==
    [files \in SUBSET AllNames |-> list_assets(CHOOSE listing \in Listings(files) : TRUE)]

discover_assets(files) == DiscoverTable[files]

-----------------------------------------------------------------------------
(* Paths and hrefs under the output directory *)

DotDot == <<".", ".">>

Dot == <<".">>

\* the first segment of an absolute href: the output directory
OutputDir == <<"/">>

Kinds == {"parquet", "metadata", "plots"}

\* the order in which the kinds are saved and relocated
KindSeq == <<"parquet", "metadata", "plots">>

\* the directory name of a kind under items/ and assets/
KindSeg(k) ==
    CASE k = "parquet" -> <<"p", "a", "r", "q", "u", "e", "t">>
      [] k = "metadata" -> <<"m", "e", "t", "a", "d", "a", "t", "a">>
      [] k = "plots" -> <<"p", "l", "o", "t", "s">>

\* args.collection_id
collection_id == <<"c">>

\* <collection_id>-<kind>: where the save step writes a sub-catalog
catalog_root(k) == <<collection_id \o <<"-">> \o KindSeg(k)>>

\* items/<kind>: where a sub-catalog is relocated to
items_root(k) == <<Names.items, KindSeg(k)>>

assets_root(k) == <<Names.assets, KindSeg(k)>>

\* os.path.normpath(os.path.join(dir, href))
RECURSIVE Resolve(_, _)
Resolve(dir, href) ==
    IF href = <<>> THEN dir
    ELSE IF Head(href) = Dot THEN Resolve(dir, Tail(href))
    ELSE IF Head(href) = DotDot /\ dir # <<>> /\ Last(dir) # DotDot
         THEN Resolve(Parent(dir), Tail(href))
    ELSE Resolve(Append(dir, Head(href)), Tail(href))

RECURSIVE CommonPrefixLen(_, _)
CommonPrefixLen(a, b) ==
    IF a = <<>> \/ b = <<>> \/ Head(a) # Head(b) THEN 0
    ELSE 1 + CommonPrefixLen(Tail(a), Tail(b))

\* os.path.relpath(target, start)
relpath(target, start) ==
    LET n == CommonPrefixLen(target, start)
    IN  [i \in 1..(Len(start) - n) |-> DotDot] \o SubSeq(target, n + 1, Len(target))

\* BestPracticesLayoutStrategy: <catalog dir>/<id>/<id>.json
item_href(catalog_dir, id) == catalog_dir \o <<id, id \o Names.json>>

-----------------------------------------------------------------------------
(* Items, links and the persisted documents *)

\* Link(rel=rel, target=item, title=item.id): the target is an item in memory,
\* of the kind its asset tells; the link has no href of its own until a document
\* is written
Link(rel, target) ==
    [rel |-> rel, title |-> target.id, href |-> None,
     kind |-> CASE target.asset_key = "metadata" -> "metadata"
                [] target.asset_key = "plot" -> "plots"
                [] OTHER -> "parquet"]

\* Item(id, geometry, bbox, datetime, properties) with its start/end and one asset;
\* self is the item's self href, None until an href is set or the item is read
Item(id, record, properties, asset_key, href) ==
    [id |-> id, bbox |-> record.bbox, start |-> record.start, end |-> record.end,
     properties |-> properties, asset_key |-> asset_key, href |-> href,
     self |-> None, links |-> <<>>]

NoItems == [k \in Kinds |-> <<>>]

NoIds == [k \in Kinds |-> {}]

\* a link of catalog.json or collection.json to another document
HrefLink(rel, href) == [rel |-> rel, href |-> href]

\* A sub-catalog under the output directory: state is "absent", "ok", "corrupt"
\* (catalog.json does not parse) or "baditem" (an item document does not parse);
\* dir is its directory, cat_links the parent/root links of catalog.json, links
\* the ids of its item links and docs the item documents.
Absent ==
    [state |-> "absent", dir |-> <<>>, cat_links |-> <<>>, links |-> <<>>,
     docs |-> [i \in {} |-> <<>>]]

\* the ids of a sequence of items, in order
IdSet(items) == {items[i].id : i \in 1..Len(items)}

\* list(catalog.get_items()) is outside the try block: an item document that
\* cannot be read raises
load_raises(k) == disk[k].dir = items_root(k) /\ disk[k].state = "baditem"

\* load_existing_items: the items of a persisted sub-catalog, in the order of its
\* item links; none when catalog.json is missing or cannot be parsed
load_existing_items(k) ==
    IF disk[k].state # "ok" \/ disk[k].dir # items_root(k) THEN <<>>
    ELSE [i \in 1..Len(disk[k].links) |->
            [disk[k].docs[disk[k].links[i]] EXCEPT
                !.self = Some(item_href(items_root(k), disk[k].links[i]))]]

\* existing_item.properties.get("source_model"), when truthy
SourceModels(item) ==
    IF "source_model" \in DOMAIN item.properties THEN {item.properties["source_model"]}
    ELSE {}

\* the properties of a new data item
DataProperties(record) ==
    LET file == Asset(record.asset)
        names == (IF file.source_model # None THEN {"source_model"} ELSE {})
                 \cup {"row_count"}
                 \cup (IF record.primary_geom # None THEN {"primary_geometry_column"} ELSE {})
    IN  [n \in names |->
            CASE n = "source_model" -> file.source_model[1]
              [] n = "row_count" -> record.row_count
              [] n = "primary_geometry_column" -> record.primary_geom[1]]

\* the image files listed in the plot directory of a partition
RECURSIVE SetToSeq(_)
SetToSeq(S) ==
    IF S = {} THEN <<>>
    ELSE LET x == CHOOSE y \in S : \A z \in S : y = z \/ StrLess(PathStr(y), PathStr(z))
         IN  <<x>> \o SetToSeq(S \ {x})

plot_infos(dir) ==
    SetToSeq({f \in plotfiles : Parent(f) = dir /\ EndsWith(Lower(Last(f)), Names.png)})

\* one plot image of a record: its copy, and its item unless the id is known
plot_step(st, data_item, local_plot_path, plot_item) ==
    IF args.incremental /\ plot_item.id \in st.ids
    THEN [st EXCEPT !.copied = @ \cup {local_plot_path}]
    ELSE [items |-> Append(st.items, plot_item),
          ids |-> st.ids \cup {plot_item.id},
          links |-> Append(st.links, Link("related", plot_item)),
          copied |-> st.copied \cup {local_plot_path},
          failed |-> st.failed]

\* describe_plot_asset without the lower() of the name: a fault the
\* classification check must detect
describe_plot_asset_cased(filename) ==
    LET name == filename
        rkt(c) == StartsWith(name, Names.variogram \o <<c>> \o Names.rkt \o Names.empirical)
        plain(c) == StartsWith(name, Names.variogram \o <<c>> \o Names.empirical)
    IN  IF StartsWith(name, Names.grid_points)
        THEN [description |-> Some(<<"mesh">>),
              properties |-> [n \in {"plot_type"} |-> "grid-mesh"]]
        ELSE IF \E c \in {"u", "v"} : rkt(c) \/ plain(c)
        THEN LET component == CHOOSE c \in {"u", "v"} : rkt(c) \/ plain(c)
             IN  [description |->
                      Some(<<IF rkt(component) THEN "residuals" ELSE "calibration",
                             component>>),
                  properties |->
                      [n \in {"plot_type", "plot_component", "plot_variant"} |->
                          CASE n = "plot_type" -> "variogram"
                            [] n = "plot_component" -> component
                            [] n = "plot_variant" ->
                                 IF rkt(component) THEN "regression-kriging"
                                 ELSE "ordinary-kriging"]]
        ELSE [description |-> None, properties |-> [n \in {} |-> ""]]

\* describe_plot_asset: the description (the text of the mesh, or that of the
\* kriging residuals or calibration of a component) and the properties of a
\* plot file name; PLOT_VARIOGRAM_RE matches at the start of the lowered name
describe_plot_asset(filename) ==
    LET name == Lower(filename)
        rkt(c) == StartsWith(name, Names.variogram \o <<c>> \o Names.rkt \o Names.empirical)
        plain(c) == StartsWith(name, Names.variogram \o <<c>> \o Names.empirical)
    IN  IF StartsWith(name, Names.grid_points)
        THEN [description |-> Some(<<"mesh">>),
              properties |-> [n \in {"plot_type"} |-> "grid-mesh"]]
        ELSE IF \E c \in {"u", "v"} : rkt(c) \/ plain(c)
        THEN LET component == CHOOSE c \in {"u", "v"} : rkt(c) \/ plain(c)
             IN  [description |->
                      Some(<<IF rkt(component) THEN "residuals" ELSE "calibration",
                             component>>),
                  properties |->
                      [n \in {"plot_type", "plot_component", "plot_variant"} |->
                          CASE n = "plot_type" -> "variogram"
                            [] n = "plot_component" -> component
                            [] n = "plot_variant" ->
                                 IF rkt(component) THEN "regression-kriging"
                                 ELSE "ordinary-kriging"]]
        ELSE [description |-> None, properties |-> [n \in {} |-> ""]]

\* the plot item of one image: plot_name, the description when there is one and
\* the properties of describe_plot_asset
plot_item_of(plot_item_id, rel_plot, data_item, record) ==
    [Item(plot_item_id, record,
          [n \in {"plot_name"}
                    \cup (IF describe_plot_asset(Last(rel_plot)).description = None
                          THEN {} ELSE {"plot_description"})
                    \cup DOMAIN describe_plot_asset(Last(rel_plot)).properties |->
              CASE n = "plot_name" -> Last(rel_plot)
                [] n = "plot_description" ->
                     describe_plot_asset(Last(rel_plot)).description[1]
                [] OTHER -> describe_plot_asset(Last(rel_plot)).properties[n]],
          "plot",
          relpath(assets_root("plots") \o rel_plot, items_root("plots") \o <<plot_item_id>>))
     EXCEPT !.links = <<Link("related", data_item)>>]

\* The plots loop of one record. st holds the plot items made so far, the known
\* plot ids, the links to add to the data item, the files copied and those whose
\* copy failed.
RECURSIVE plots_loop(_, _, _, _)
plots_loop(infos, data_item, record, st) ==
    IF infos = <<>> THEN st
    ELSE plots_loop(Tail(infos), data_item, record,
             plot_step(st, data_item, assets_root("plots") \o Head(infos),
                 plot_item_of(data_item.id \o Names.sfx_plot \o Stem(Last(Head(infos))),
                              Head(infos), data_item, record)))

NoPlots(ids) == [items |-> <<>>, ids |-> ids, links |-> <<>>, copied |-> {}, failed |-> {}]

\* the plots loop when every copy fails: each image is passed over
RECURSIVE plots_loop_failing(_, _)
plots_loop_failing(infos, st) ==
    IF infos = <<>> THEN st
    ELSE plots_loop_failing(Tail(infos),
             [st EXCEPT !.failed = @ \cup {assets_root("plots") \o Head(infos)}])

\* normalize_hrefs on one item: Item.set_self_href keeps a relative asset href
\* pointing at the same file when the item already had a self href
set_self_href(item, new_self) ==
    [item EXCEPT
        !.self = Some(new_self),
        !.href = IF item.self = None THEN @
                 ELSE relpath(Resolve(Parent(item.self[1]), @), Parent(new_self))]

\* The sub-catalog as collection.save writes it under <collection_id>-<kind>:
\* items are written in link order, so of two items with one id the later stays;
\* the document of an item has no self link. A describes, describedby or related
\* link is written with the self href of its target item, the absolute path the
\* target has under <collection_id>-<kind> (only root, parent, child, item and
\* collection links are made relative); a link read from a document keeps its
\* href.
saved_catalog(k) ==
    LET items == [i \in 1..Len(catalogs[k]) |->
                     [set_self_href(catalogs[k][i],
                                    item_href(catalog_root(k), catalogs[k][i].id))
                      EXCEPT !.links =
                          [j \in 1..Len(catalogs[k][i].links) |->
                              IF catalogs[k][i].links[j].href = None
                              THEN [catalogs[k][i].links[j] EXCEPT !.href =
                                       Some(<<OutputDir>>
                                            \o item_href(
                                                   catalog_root(catalogs[k][i].links[j].kind),
                                                   catalogs[k][i].links[j].title))]
                              ELSE catalogs[k][i].links[j]]]]
    IN  [state |-> "ok",
         dir |-> catalog_root(k),
         cat_links |-> <<HrefLink("root", relpath(<<Names.collection_json>>, catalog_root(k))),
                         HrefLink("parent", relpath(<<Names.collection_json>>, catalog_root(k)))>>,
         links |-> [i \in 1..Len(items) |-> items[i].id],
         docs |-> [id \in IdSet(items) |->
                     [items[CHOOSE i \in 1..Len(items) :
                               /\ items[i].id = id
                               /\ \A j \in (i + 1)..Len(items) : items[j].id # id]
                      EXCEPT !.self = None]]]

\* relocate_subcatalog on the sub-catalog: the move and the rewriting of the
\* self/parent/root links of catalog.json
relocate_subcatalog(cat, target_subdir) ==
    [cat EXCEPT
        !.dir = target_subdir,
        !.cat_links =
            [i \in 1..Len(cat.cat_links) |->
                IF cat.cat_links[i].rel = "self"
                THEN HrefLink("self", <<Names.catalog_json>>)
                ELSE IF cat.cat_links[i].rel \in {"parent", "root"}
                THEN HrefLink(cat.cat_links[i].rel, <<DotDot, DotDot, Names.collection_json>>)
                ELSE cat.cat_links[i]]]

\* relocate_subcatalog leaving collection.json as it was saved: a fault the
\* persistence checks must detect
relocate_child_link_kept(links, child_id, target_subdir) == links

\* relocate_subcatalog on collection.json: the child link to the saved location
\* is pointed at the new one
relocate_child_link(links, child_id, target_subdir) ==
    [i \in 1..Len(links) |->
        IF links[i].rel = "child" /\ links[i].href = <<Dot>> \o child_id \o <<Names.catalog_json>>
        THEN HrefLink("child", <<Dot>> \o target_subdir \o <<Names.catalog_json>>)
        ELSE links[i]]

\* collection.json with every sub-catalog added, with items or without: a fault
\* the child check must detect
saved_collection_links_all(used) ==
    <<HrefLink("root", <<Dot, Names.collection_json>>),
      HrefLink("self", <<OutputDir, Names.collection_json>>)>>
    \o [i \in 1..Len(KindSeq) |->
           HrefLink("child", <<Dot>> \o catalog_root(KindSeq[i]) \o <<Names.catalog_json>>)]

\* the links of collection.json as collection.save writes it: root, self, and
\* one child link per sub-catalog added
saved_collection_links(used) ==
    LET F[i \in 0..Len(KindSeq)] ==
            IF i = 0
            THEN <<HrefLink("root", <<Dot, Names.collection_json>>),
                   HrefLink("self", <<OutputDir, Names.collection_json>>)>>
            ELSE IF used[KindSeq[i]]
            THEN Append(F[i - 1],
                     HrefLink("child", <<Dot>> \o catalog_root(KindSeq[i]) \o <<Names.catalog_json>>))
            ELSE F[i - 1]
    IN  F[Len(KindSeq)]

\* the three calls of relocate_subcatalog, each a no-op when its directory was
\* not written
relocated_collection_links(links, used) ==
    LET F[i \in 0..Len(KindSeq)] ==
            IF i = 0 THEN links
            ELSE IF used[KindSeq[i]]
            THEN relocate_child_link(F[i - 1], catalog_root(KindSeq[i]), items_root(KindSeq[i]))
            ELSE F[i - 1]
    IN  F[Len(KindSeq)]

ModelNames == <<"gfs", "wrf">>

\* sorted(discovered_models)
SortedModels(S) ==
    LET F[i \in 0..Len(ModelNames)] ==
            IF i = 0 THEN <<>>
            ELSE IF ModelNames[i] \in S THEN Append(F[i - 1], ModelNames[i]) ELSE F[i - 1]
    IN  F[Len(ModelNames)]

-----------------------------------------------------------------------------
(* The builder: one run is StartRun, the incremental load loop, one           *)
(* ProcessRecord per discovered record, and Persist                           *)

\* the earliest --temporal-start of the model
\* --input-root names the root directory, a regular file, or nothing
ArgSets ==
    [input_root : {"dir", "file", "missing"},
     incremental : BOOLEAN, metadata_prefix : BOOLEAN, plots_prefix : BOOLEAN,
     temporal_start : {None, Some(T0)}, temporal_end : {None}]

NoArgs ==
    [input_root |-> "dir",
     incremental |-> FALSE, metadata_prefix |-> FALSE, plots_prefix |-> FALSE,
     temporal_start |-> None, temporal_end |-> None]

FreshExtent == [bbox |-> <<NaN, NaN, NaN, NaN>>, start |-> None, end |-> None]

MainIdle ==
    /\ disk = [k \in Kinds |-> Absent]
    /\ collectionJson = None
    /\ assetFiles = {}
    /\ pc = "idle"
    /\ args = NoArgs
    /\ records = <<>>
    /\ idx = 1
    /\ pending = <<>>
    /\ collection = FreshExtent
    /\ catalogs = NoItems
    /\ has = [k \in Kinds |-> FALSE]
    /\ existing_ids = NoIds
    /\ discovered_models = {}
    /\ runs = 0
    /\ envSteps = 0
    /\ copied = {}
    /\ created = 0
    /\ failed = {}
    /\ warned = {}
    /\ history = <<>>

Init ==
    /\ root \in SUBSET AssetNames
    /\ sidecars \in SUBSET {<<Seg.y2025, Seg.m01, Seg.d02, Seg.h03>>}
    /\ plotfiles \in SUBSET PlotFiles
    /\ MainIdle
    /\ fin = <<>>
    /\ fout = <<>>

\* a run that skips the check of the root: a fault the abort check must detect
root_is_directory_always(a) == TRUE

\* the root is a directory
root_is_directory(a) == a.input_root = "dir"

\* the run ends before its scan loop: sys.exit for a root that is no directory
\* or holds no asset, the exception of datetime() in discover_assets, or the
\* exception of get_items() in the load of the data sub-catalog
aborts_before_scan(a, found) ==
    \/ ~root_is_directory(a)
    \/ found = <<>>
    \/ \E i \in 1..Len(found) : record_of(found[i]).raised
    \/ a.incremental /\ load_raises("parquet")

\* a run that reads no prior list: a fault the source_models check must detect
recovered_models_none(a) == {}

\* the source_models list of the prior collection.json, read in incremental mode
recovered_models(a) ==
    IF a.incremental /\ collectionJson # None
    THEN {collectionJson[1].source_models[i] :
             i \in 1..Len(collectionJson[1].source_models)}
    ELSE {}

\* build_items_and_collection up to the incremental load: the root check,
\* discovery, the fresh collection and the models recovered from collection.json
StartRun(a) ==
    /\ pc = "idle"
    /\ runs < MaxRuns
    /\ runs' = runs + 1
    /\ IF aborts_before_scan(a, discover_assets(root))
       THEN UNCHANGED <<pc, args, records, idx, pending, collection, catalogs, has,
                        existing_ids, discovered_models, copied, created, failed,
                        warned>>
       ELSE /\ args' = a
            /\ records' = discover_assets(root)
            /\ idx' = 1
            /\ collection' = create_collection(a)
            /\ catalogs' = NoItems
            /\ has' = [k \in Kinds |-> FALSE]
            /\ existing_ids' = NoIds
            /\ discovered_models' = recovered_models(a)
            /\ pending' = IF a.incremental THEN load_existing_items("parquet") ELSE <<>>
            /\ pc' = IF a.incremental THEN "load" ELSE "scan"
            /\ copied' = {}
            /\ created' = 0
            /\ failed' = {}
            /\ warned' = {}
    /\ UNCHANGED <<root, sidecars, plotfiles, disk, collectionJson, assetFiles,
                   envSteps, history, fin, fout>>

\* one pass of the loop over the reloaded data items
LoadItem ==
    /\ pc = "load"
    /\ pending # <<>>
    /\ LET existing_item == Head(pending)
       IN  /\ catalogs' = [catalogs EXCEPT !["parquet"] = Append(@, existing_item)]
           /\ has' = [has EXCEPT !["parquet"] = TRUE]
           /\ existing_ids' = [existing_ids EXCEPT !["parquet"] = @ \cup {existing_item.id}]
           /\ collection' = update_collection_extent(collection, existing_item.bbox,
                                existing_item.start, existing_item.end)
           /\ discovered_models' = discovered_models \cup SourceModels(existing_item)
    /\ pending' = Tail(pending)
    /\ UNCHANGED <<root, sidecars, plotfiles, disk, collectionJson, assetFiles, pc, args,
                   records, idx, runs, envSteps, copied, created, failed, warned,
                   history, fin, fout>>

\* the loops over the reloaded metadata and plot items; the exception of
\* get_items() ends the run
LoadCompanions ==
    /\ pc = "load"
    /\ pending = <<>>
    /\ IF load_raises("metadata") \/ load_raises("plots")
       THEN /\ pc' = "idle"
            /\ UNCHANGED <<catalogs, has, existing_ids>>
       ELSE LET md == load_existing_items("metadata")
                pl == load_existing_items("plots")
            IN  /\ catalogs' = [catalogs EXCEPT !["metadata"] = @ \o md, !["plots"] = @ \o pl]
                /\ has' = [has EXCEPT !["metadata"] = @ \/ md # <<>>,
                                      !["plots"] = @ \/ pl # <<>>]
                /\ existing_ids' = [existing_ids EXCEPT !["metadata"] = @ \cup IdSet(md),
                                                        !["plots"] = @ \cup IdSet(pl)]
                /\ pc' = "scan"
    /\ UNCHANGED <<root, sidecars, plotfiles, disk, collectionJson, assetFiles, args,
                   records, idx, pending, collection, discovered_models, runs, envSteps,
                   copied, created, failed, warned, history, fin, fout>>

\* a skip test that never skips: a fault the incremental checks must detect
known_asset_never(item_id) == FALSE

\* the incremental skip test of the scan loop
known_asset(item_id) == args.incremental /\ item_id \in existing_ids["parquet"]

\* the kinds of file a record that is not skipped copies from a source that exists
copy_sources(record, item_id) ==
    {"parquet"}
    \cup (IF /\ args.metadata_prefix
             /\ ~(args.incremental /\ (item_id \o Names.sfx_metadata) \in existing_ids["metadata"])
             /\ Parent(record.relative_path) \in sidecars
          THEN {"metadata"} ELSE {})
    \cup (IF args.plots_prefix /\ plot_infos(Parent(record.relative_path)) # <<>>
          THEN {"plots"} ELSE {})

\* the data item of a record, before its companions are linked
parquet_item_of(record, item_id) ==
    Item(item_id, record, DataProperties(record), "data",
         relpath(assets_root("parquet") \o record.relative_path,
                 items_root("parquet") \o <<item_id>>))

\* the metadata sidecar of a record: whether its copy is tried (the prefix is
\* configured, the id is not known), whether an item is made for it (the copy
\* succeeds: the sidecar exists and copy_from_fs returns True), the file, the item
metadata_of(record, metadata_item_id, metadata_rel, parquet_item, fails) ==
    [made |-> /\ args.metadata_prefix
              /\ ~(args.incremental /\ metadata_item_id \in existing_ids["metadata"])
              /\ Parent(record.relative_path) \in sidecars
              /\ "metadata" \notin fails,
     failed |-> IF "metadata" \in fails THEN {assets_root("metadata") \o metadata_rel}
                ELSE {},
     file |-> assets_root("metadata") \o metadata_rel,
     item |-> [Item(metadata_item_id, record, [n \in {"asset_type"} |-> "metadata"],
                    "metadata",
                    relpath(assets_root("metadata") \o metadata_rel,
                            items_root("metadata") \o <<metadata_item_id>>))
               EXCEPT !.links = <<Link("describes", parquet_item)>>]]

plots_of(record, parquet_item, fails) ==
    IF ~args.plots_prefix THEN NoPlots(existing_ids["plots"])
    ELSE IF "plots" \in fails
    THEN plots_loop_failing(plot_infos(Parent(record.relative_path)),
                            NoPlots(existing_ids["plots"]))
    ELSE plots_loop(plot_infos(Parent(record.relative_path)), parquet_item, record,
                    NoPlots(existing_ids["plots"]))

\* the effects of one record that is not skipped and whose data file is copied
register(parquet_item, local_parquet_path, md, pl) ==
    /\ assetFiles' = assetFiles \cup {local_parquet_path}
                        \cup (IF md.made THEN {md.file} ELSE {}) \cup pl.copied
    /\ copied' = copied \cup {local_parquet_path}
                    \cup (IF md.made THEN {md.file} ELSE {}) \cup pl.copied
    /\ failed' = failed \cup md.failed \cup pl.failed
    /\ created' = created + 1 + (IF md.made THEN 1 ELSE 0) + Len(pl.items)
    /\ collection' = update_collection_extent(collection, parquet_item.bbox,
                         parquet_item.start, parquet_item.end)
    /\ discovered_models' = discovered_models \cup SourceModels(parquet_item)
    /\ catalogs' =
           [catalogs EXCEPT
               !["parquet"] =
                   Append(@, [parquet_item EXCEPT
                                 !.links = (IF md.made
                                            THEN <<Link("describedby", md.item)>>
                                            ELSE <<>>) \o pl.links]),
               !["metadata"] = IF md.made THEN Append(@, md.item) ELSE @,
               !["plots"] = @ \o pl.items]
    /\ has' = [has EXCEPT !["parquet"] = TRUE,
                          !["metadata"] = @ \/ md.made,
                          !["plots"] = @ \/ pl.items # <<>>]
    /\ existing_ids' =
           [existing_ids EXCEPT
               !["parquet"] = @ \cup {parquet_item.id},
               !["metadata"] = IF md.made THEN @ \cup {md.item.id} ELSE @,
               !["plots"] = pl.ids]

process_new(record, parquet_item, fails) ==
    register(parquet_item,
             assets_root("parquet") \o record.relative_path,
             metadata_of(record, parquet_item.id \o Names.sfx_metadata,
                         Parent(record.relative_path) \o <<Names.metadata_json>>, parquet_item, fails),
             plots_of(record, parquet_item, fails))

\* sys.exit after the failed copy of a data file, but with the sub-catalogs of the
\* output directory cleared on the way out: a fault the persistence checks must detect
abort_scan_clearing(local_parquet_path) ==
    /\ pc' = "idle"
    /\ failed' = failed \cup {local_parquet_path}
    /\ disk' = [k \in Kinds |-> Absent]
    /\ UNCHANGED <<idx, collectionJson, assetFiles, collection, catalogs, has,
                   existing_ids, discovered_models, copied, created>>

\* sys.exit after the failed copy of a data file: the run ends where it is
abort_scan(local_parquet_path) ==
    /\ pc' = "idle"
    /\ failed' = failed \cup {local_parquet_path}
    /\ UNCHANGED <<idx, disk, collectionJson, assetFiles, collection, catalogs, has,
                   existing_ids, discovered_models, copied, created>>

\* one record of the scan loop; fails holds the kinds of file whose copy fails
process_record(record, item_id, fails) ==
    IF known_asset(item_id)
    THEN /\ fails = {}
         /\ pc' = pc
         /\ idx' = idx + 1
         /\ UNCHANGED <<disk, collectionJson, assetFiles, collection, catalogs, has,
                        existing_ids, discovered_models, copied, created, failed>>
    ELSE IF "parquet" \in fails
    THEN /\ fails = {"parquet"}
         /\ abort_scan(assets_root("parquet") \o record.relative_path)
    ELSE /\ fails \subseteq copy_sources(record, item_id)
         /\ pc' = pc
         /\ idx' = idx + 1
         /\ UNCHANGED <<disk, collectionJson>>
         /\ process_new(record, parquet_item_of(record, item_id), fails)

\* one pass of the loop over the discovered records; a copy may fail. The
\* warning for a record without a bbox is written before the skip test
ProcessRecord ==
    /\ pc = "scan"
    /\ idx <= Len(records)
    /\ \E fails \in SUBSET Kinds :
          /\ fails # {} => envSteps < MaxEnvSteps
          /\ envSteps' = IF fails = {} THEN envSteps ELSE envSteps + 1
          /\ process_record(record_of(records[idx]), make_item_id(record_of(records[idx])),
                            fails)
    /\ warned' = IF record_of(records[idx]).bbox = None
                 THEN warned \cup {record_of(records[idx]).relative_path}
                 ELSE warned
    /\ UNCHANGED <<root, sidecars, plotfiles, args, records, pending, runs, history,
                   fin, fout>>

\* the persisted collection.json; source_models is empty when the field is not
\* written; the clean-up after collection.save drops the links with rel self
collection_doc ==
    [bbox |-> collection.bbox, start |-> collection.start, end |-> collection.end,
     source_models |-> SortedModels(discovered_models),
     children |-> {k \in Kinds : has[k]},
     links |-> relocated_collection_links(SelectSeq(saved_collection_links(has),
                                                    LAMBDA link : link.rel # "self"),
                                          has)]

\* normalize_hrefs, collection.save, the removal of the self link and
\* relocate_subcatalog for each kind that has items; a kind without items is
\* neither saved nor moved
Persist ==
    /\ pc = "scan"
    /\ idx > Len(records)
    /\ disk' = [k \in Kinds |->
                  IF has[k] THEN relocate_subcatalog(saved_catalog(k), items_root(k))
                  ELSE disk[k]]
    /\ collectionJson' = Some(collection_doc)
    /\ history' = Append(history,
                     [incremental |-> args.incremental,
                      env |-> envSteps,
                      root |-> root,
                      sidecars |-> sidecars,
                      plotfiles |-> plotfiles,
                      empty_output |-> collectionJson = None
                                       /\ \A k \in Kinds : disk[k].state = "absent",
                      ids |-> [k \in Kinds |-> disk'[k].links],
                      copied |-> copied,
                      created |-> created,
                      failed |-> failed])
    /\ pc' = "idle"
    /\ UNCHANGED <<root, sidecars, plotfiles, assetFiles, args, records, idx, pending,
                   collection, catalogs, has, existing_ids, discovered_models, runs,
                   envSteps, copied, created, failed, warned, fin, fout>>

-----------------------------------------------------------------------------
(* Changes from outside, between runs *)

EnvStep ==
    /\ pc = "idle"
    /\ envSteps < MaxEnvSteps
    /\ envSteps' = envSteps + 1
    /\ UNCHANGED <<collectionJson, assetFiles, runVars, runs, history, fin, fout>>

\* a new partition file appears under the root
AddAsset(a) ==
    /\ a \notin root
    /\ root' = root \cup {a}
    /\ EnvStep
    /\ UNCHANGED <<sidecars, plotfiles, disk>>

\* a partition file is removed from the root
RemoveAsset(a) ==
    /\ a \in root
    /\ root' = root \ {a}
    /\ EnvStep
    /\ UNCHANGED <<sidecars, plotfiles, disk>>

\* a metadata sidecar becomes available
AddSidecar(d) ==
    /\ d \notin sidecars
    /\ sidecars' = sidecars \cup {d}
    /\ EnvStep
    /\ UNCHANGED <<root, plotfiles, disk>>

\* a plot image becomes available
AddPlot(f) ==
    /\ f \notin plotfiles
    /\ plotfiles' = plotfiles \cup {f}
    /\ EnvStep
    /\ UNCHANGED <<root, sidecars, disk>>

\* the catalog.json of a persisted sub-catalog becomes unparsable
Corrupt(k) ==
    /\ disk[k].state = "ok"
    /\ disk' = [disk EXCEPT ![k].state = "corrupt"]
    /\ EnvStep
    /\ UNCHANGED <<root, sidecars, plotfiles>>

\* an item document of a persisted sub-catalog becomes unparsable
CorruptItem(k) ==
    /\ disk[k].state = "ok"
    /\ disk[k].links # <<>>
    /\ disk' = [disk EXCEPT ![k].state = "baditem"]
    /\ EnvStep
    /\ UNCHANGED <<root, sidecars, plotfiles>>

Next ==
    \/ \E a \in ArgSets : StartRun(a)
    \/ LoadItem
    \/ LoadCompanions
    \/ ProcessRecord
    \/ Persist
    \/ \E a \in AllNames : AddAsset(a)
    \/ \E a \in AllNames : RemoveAsset(a)
    \/ \E d \in ({<<Seg.y2025, Seg.m01, Seg.d02, Seg.h03>>, <<Seg.misc>>}) : AddSidecar(d)
    \/ \E f \in PlotFiles : AddPlot(f)
    \/ \E k \in Kinds : Corrupt(k)
    \/ \E k \in Kinds : CorruptItem(k)

Spec == Init /\ [][Next]_vars

-----------------------------------------------------------------------------
(* The pure functions on their own: the builder stays idle, fin is the input   *)
(* and fout the result                                                         *)

Idle ==
    /\ root = {}
    /\ sidecars = {}
    /\ plotfiles = {}
    /\ MainIdle

idleVars ==
    <<root, sidecars, plotfiles, disk, collectionJson, assetFiles, pc, args, records,
      idx, pending, collection, catalogs, has, existing_ids, discovered_models, runs,
      envSteps, copied, created, failed, warned, history>>

\* the bboxes with coordinates in 0..MaxCoord
ExtentInit ==
    /\ Idle
    /\ fin = <<>>
    /\ fout = create_collection(NoArgs)

\* one more item, with a bbox b or without (None), is folded into the accumulator
FoldItem ==
    /\ Len(fin) < MaxFold
    /\ \E b \in {c \in [1..4 -> 0..MaxCoord] : c[1] <= c[3] /\ c[2] <= c[4]} \cup {None} :
          /\ fin' = Append(fin, b)
          /\ fout' = update_collection_extent(fout, b, None, None)
    /\ UNCHANGED idleVars

SpecExtent == ExtentInit /\ [][FoldItem]_vars

\* a pure function on its own starts without input and without result
PureInit ==
    /\ Idle
    /\ fin = <<>>
    /\ fout = <<>>

\* the id of the record discover_assets builds for the file at a relative path
\* that has each partition segment or not; the function is applied once
MakeId ==
    /\ fout = <<>>
    /\ \E y \in {<<>>, <<Seg.y2025>>}, m \in {<<>>, <<Seg.m01>>, <<Seg.m12>>},
          d \in {<<>>, <<Seg.d02>>}, h \in {<<>>, <<Seg.h03>>, <<Seg.h04>>},
          f \in {Seg.data, Seg.extra, Seg.grid, Seg.geo} :
          /\ fin' = y \o m \o d \o h \o <<f>>
          /\ fout' = make_item_id([relative_path |-> fin',
                                   partitions |-> parse_partitions(fin')])
    /\ UNCHANGED idleVars

SpecId == PureInit /\ [][MakeId]_vars

\* the bounds of a file whose temporal columns are cols; the function is applied
\* once. The columns have one to MaxCells cells each: a datetime, a parsable
\* string, null or a string that does not parse
ReadBounds ==
    /\ fout = <<>>
    /\ \E cols \in (UNION {[names -> UNION {[1..n -> {Cell("dt", T0 + 1, None), Cell("str", T0 + 4, Some(1)), Cell("null", 0, None), Cell("bad", 0, None)}] : n \in 1..MaxCells}] : names \in SUBSET {"timestamp", "date", "start_datetime", "end_datetime"}}) :
          /\ fin' = cols
          /\ fout' = read_timestamp_bounds(cols)
    /\ UNCHANGED idleVars

SpecTime == PureInit /\ [][ReadBounds]_vars

\* the interval of a file without usable temporal column (none, or one of nulls),
\* at a path that has each partition segment or not, with values that are no
\* number or no calendar date among them; the resolver is applied once
ResolveInterval ==
    /\ fout = <<>>
    /\ \E y \in {<<>>, <<Seg.y2025>>, <<PartitionKeys.year \o <<"=", "a", "b", "c">> >>},
          m \in {<<>>, <<PartitionKeys.month \o <<"=", "0", "2">> >>, <<Seg.m12>>, <<Seg.m13>>},
          d \in {<<>>, <<Seg.d02>>, <<PartitionKeys.day \o <<"=", "3", "1">> >>},
          h \in {<<>>, <<Seg.h03>>, <<PartitionKeys.hour \o <<"=", "2", "3">> >>,
                 <<PartitionKeys.hour \o <<"=", "2", "4">> >>},
          cols \in {EmptyDict, [c \in {"timestamp"} |-> <<Cell("null", 0, None)>>]} :
          /\ fin' = [path |-> y \o m \o d \o h \o <<Seg.data>>, cols |-> cols]
          /\ fout' = asset_interval(read_timestamp_bounds(cols),
                                    partition_datetime(parse_partitions(fin'.path)))
    /\ UNCHANGED idleVars

SpecInterval == PureInit /\ [][ResolveInterval]_vars

\* the partitions of a relative path of one to three segments, each without "=",
\* with one "=" (after a key or not, before a value or not) or with two; the
\* function is applied once
ParsePartitions ==
    /\ fout = <<>>
    /\ \E n \in 1..3 :
          \E path \in [1..n -> {Seg.misc, Seg.h03, Seg.h04, <<"a", "=">>, <<"=", "b">>,
                                <<"a", "=", "b", "=", "c">>}] :
             /\ fin' = path
             /\ fout' = [parts |-> parse_partitions(path)]
    /\ UNCHANGED idleVars

SpecPartitions == PureInit /\ [][ParsePartitions]_vars

\* discover_assets over a root holding some of the files, listed by the
\* filesystem in any order; the function is applied once
ListAssets ==
    /\ fout = <<>>
    /\ \E files \in SUBSET AllNames :
          \E listing \in Listings(files) :
             /\ fin' = [files |-> files, listing |-> listing]
             /\ fout' = [records |-> list_assets(listing)]
    /\ UNCHANGED idleVars

SpecListing == PureInit /\ [][ListAssets]_vars

\* the classification of a plot file name put together from a head, a component,
\* a marker and a middle, each as the patterns want it, in other case, or
\* different; the function is applied once
DescribePlot ==
    /\ fout = <<>>
    /\ \E head \in {Names.grid_points, <<"G", "r", "i", "d", "_", "P", "o", "i", "n", "t", "s">>, Names.variogram, <<"V", "a", "r", "i", "o", "g", "r", "a", "m", "_">>, <<"p", "l", "o", "t", "_">>, <<>>},
          component \in {<<"u">>, <<"v">>, <<"U">>, <<"w">>, <<>>},
          marker \in {<<>>, Names.rkt, <<"_", "R", "K", "T">>, <<"_", "r", "k">>},
          middle \in {Names.empirical, <<"_", "e", "m", "p", "i", "r", "i", "c", "a", "l">>, <<"_", "f", "i", "t", "t", "e", "d", "_">>} :
          /\ fin' = [parts |-> <<head, component, marker, middle>>,
                     name |-> head \o component \o marker \o middle \o Names.png]
          /\ fout' = describe_plot_asset(fin'.name)
    /\ UNCHANGED idleVars

SpecPlot == PureInit /\ [][DescribePlot]_vars

-----------------------------------------------------------------------------
(* The ingestion handler (lambda/lambda_processor.py): the download with retry *)

\* the sleep before every retry the same: a fault the backoff check must detect
sleep_time_flat(backoff_seconds, attempt) == backoff_seconds

\* sleep_time = backoff_seconds * attempt
sleep_time(backoff_seconds, attempt) == backoff_seconds * attempt

\* the handler calls _download_with_retry with NETCDF_DOWNLOAD_RETRIES, at least
\* 1 whatever the environment says, and NETCDF_DOWNLOAD_BACKOFF; the loop starts
\* with attempt 1 and no error. slept lists the sleeps made.
StartDownload ==
    /\ fout = <<>>
    /\ \E env_retries \in 0..MaxRetries, backoff \in 0..MaxBackoff :
          fin' = [env_retries |-> env_retries, retries |-> Max(1, env_retries),
                  backoff_seconds |-> backoff]
    /\ fout' = [pc |-> "attempt", attempt |-> 1, last_error |-> None, slept |-> <<>>,
                raised |-> None]
    /\ UNCHANGED idleVars

\* urlopen and copyfileobj succeed: return
DownloadSucceeds ==
    /\ fout # <<>>
    /\ fout.pc = "attempt"
    /\ fout' = [fout EXCEPT !.pc = "returned"]
    /\ UNCHANGED <<idleVars, fin>>

\* urlopen or copyfileobj raises, a URLError or timeout or another Exception: the
\* error is kept; before the last attempt the loop goes on to its sleep, after it
\* the loop ends and the error kept is raised
DownloadFails ==
    /\ fout # <<>>
    /\ fout.pc = "attempt"
    /\ \E exc \in {"URLError", "Exception"} :
          fout' = [fout EXCEPT
                      !.last_error = Some([attempt |-> fout.attempt, exc |-> exc]),
                      !.pc = IF fout.attempt < fin.retries THEN "sleep" ELSE "raised",
                      !.raised = IF fout.attempt < fin.retries THEN None
                                 ELSE Some([attempt |-> fout.attempt, exc |-> exc])]
    /\ UNCHANGED <<idleVars, fin>>

\* time.sleep(sleep_time), then the next attempt
Backoff ==
    /\ fout # <<>>
    /\ fout.pc = "sleep"
    /\ fout' = [fout EXCEPT
                   !.slept = Append(@, sleep_time(fin.backoff_seconds, fout.attempt)),
                   !.attempt = @ + 1,
                   !.pc = "attempt"]
    /\ UNCHANGED <<idleVars, fin>>

SpecDownload ==
    PureInit /\ [][StartDownload \/ DownloadSucceeds \/ DownloadFails \/ Backoff]_vars

-----------------------------------------------------------------------------
(* The ingestion handler: the upload of the time slices. An instant is a      *)
(* number of hours, a date the number of its day; the year=/month=/day= part  *)
(* of a key is the date it is written from.                                    *)

\* key and sidecar_key: the data or metadata tree, year=/month=/day= of date_str
\* and hour= of hour_str = time_val.strftime("%H")
slice_key(tree, date, time_val) ==
    [tree |-> tree, date |-> date,
     hour |-> <<Ascii[Code("0") + ((time_val % 24) \div 10)],
                Ascii[Code("0") + ((time_val % 24) % 10)]>>]

\* The handler up to its loop over the slices: the source file has one to
\* MaxSlices slices, one or twelve hours apart, the first at hour 0 or 23 of day
\* 0; date_str is the date in the url (day 0 or 1) or, without one, the date of
\* the first slice. bucket tells for each key written the slice it holds.
StartIngest ==
    /\ fout = <<>>
    /\ \E n \in 1..MaxSlices, first \in {0, 23}, step \in {1, 12},
          url_date \in {None, Some(0), Some(1)} :
          fin' = [times |-> [i \in 1..n |-> first + (i - 1) * step],
                  date_str |-> IF url_date = None THEN first \div 24 ELSE url_date[1]]
    /\ fout' = [pc |-> "loop", idx |-> 1, uploaded |-> <<>>,
                bucket |-> [key \in {} |-> 0]]
    /\ UNCHANGED idleVars

\* one pass of the loop: the data file of the slice is uploaded to its key, then
\* its sidecar to the sidecar key, each key appended to uploaded; after the last
\* slice the handler returns
UploadSlice ==
    /\ fout # <<>>
    /\ fout.pc = "loop"
    /\ LET key == slice_key("data", fin.date_str, fin.times[fout.idx])
           sidecar_key == slice_key("metadata", fin.date_str, fin.times[fout.idx])
       IN  fout' = [pc |-> IF fout.idx = Len(fin.times) THEN "returned" ELSE "loop",
                    idx |-> fout.idx + 1,
                    uploaded |-> fout.uploaded \o <<key, sidecar_key>>,
                    bucket |-> [k \in DOMAIN fout.bucket \cup {key, sidecar_key} |->
                                  IF k \in {key, sidecar_key} THEN fout.idx
                                  ELSE fout.bucket[k]]]
    /\ UNCHANGED <<idleVars, fin>>

\* upload_file raises, for the data file or for the sidecar after the data file
\* was uploaded: the handler raises
UploadFails ==
    /\ fout # <<>>
    /\ fout.pc = "loop"
    /\ LET key == slice_key("data", fin.date_str, fin.times[fout.idx])
       IN  \/ fout' = [fout EXCEPT !.pc = "raised"]
           \/ fout' = [fout EXCEPT
                          !.pc = "raised",
                          !.uploaded = Append(@, key),
                          !.bucket = [k \in DOMAIN fout.bucket \cup {key} |->
                                         IF k = key THEN fout.idx ELSE fout.bucket[k]]]
    /\ UNCHANGED <<idleVars, fin>>

SpecIngest == PureInit /\ [][StartIngest \/ UploadSlice \/ UploadFails]_vars

-----------------------------------------------------------------------------
(* Override documents: dicts live in a heap, a sequence of objects addressed by *)
(* their index; a value is a number, a string, null, an array or a reference    *)
(* to a dict                                                                    *)

Num(n) == [t |-> "num", v |-> n]

Str(x) == [t |-> "str", v |-> x]

Arr(x) == [t |-> "arr", v |-> x]

Null == [t |-> "null", v |-> 0]

Ref(a) == [t |-> "ref", v |-> a]

\* the keys of a dict, in the order items() yields them
keys_of(d) ==
    SelectSeq(<<"assets", "data", "href", "metadata", "plot", "properties", "roles",
                "row_count", "title", "x">>,
              LAMBDA key : key \in DOMAIN d)

\* deep_merge_dict writing into base itself instead of a copy: a fault the merge
\* checks must detect
RECURSIVE merge_items(_, _, _, _)
deep_merge_dict_inplace(h, base, extra) ==
    [heap |-> merge_items(h, base, extra, keys_of(h[extra])), result |-> base]

\* deep_merge_dict(base, extra) on the heap h: the heap afterwards and the
\* address of the new dict
RECURSIVE deep_merge_dict(_, _, _)
deep_merge_dict(h, base, extra) ==
    [heap |-> merge_items(Append(h, h[base]), Len(h) + 1, extra, keys_of(h[extra])),
     result |-> Len(h) + 1]

\* the assignment result[key] = deep_merge_dict(result[key], value)
merge_nested(r, result, extra, key, keys) ==
    merge_items([r.heap EXCEPT ![result] = Put(@, key, Ref(r.result))], result, extra, keys)

\* the loop over extra.items(), from the keys still to visit
merge_items(h, result, extra, keys) ==
    IF keys = <<>> THEN h
    ELSE IF /\ Head(keys) \in DOMAIN h[result]
            /\ h[result][Head(keys)].t = "ref"
            /\ h[extra][Head(keys)].t = "ref"
    THEN merge_nested(deep_merge_dict(h, h[result][Head(keys)].v, h[extra][Head(keys)].v),
                      result, extra, Head(keys), Tail(keys))
    ELSE merge_items([h EXCEPT ![result] = Put(@, Head(keys), h[extra][Head(keys)])],
                     result, extra, Tail(keys))

\* the dicts with keys among K and values among V
Dicts(K, V) == UNION {[ks -> V] : ks \in SUBSET K}

\* deep_merge_dict(base, extra) for the dicts at 1 and 2 of a heap; the function
\* is applied once. The heaps are of four dicts: 1 is base, 2 is extra, 3 and 4
\* are the dicts they may hold, 3 may hold 4
Merge ==
    /\ fout = <<>>
    /\ \E h \in ({<<o1, o2, o3, o4>> : o1 \in Dicts({"properties", "x"}, {Num(1), Arr(<<1>>), Ref(3), Ref(4)}), o2 \in Dicts({"properties", "x"}, {Num(1), Arr(<<1>>), Ref(3), Ref(4)}), o3 \in Dicts({"row_count", "x"}, {Num(10), Ref(4)}), o4 \in Dicts({"x"}, {Num(1), Arr(<<10>>)})}) :
          /\ fin' = h
          /\ fout' = deep_merge_dict(h, 1, 2)
    /\ UNCHANGED idleVars

SpecMerge == PureInit /\ [][Merge]_vars

-----------------------------------------------------------------------------
(* Item overrides: the block applied to a data, metadata or plot item after its *)
(* asset was added                                                              *)

\* the key under which the item of a kind holds its asset
asset_key(kind) ==
    IF kind = "parquet" THEN "data" ELSE IF kind = "metadata" THEN "metadata" ELSE "plot"

\* the heap with item.to_dict() at 1, the override document at 2, the item's
\* assets, properties and asset at 3, 4 and 5, and the dicts the override may hold
\* under "assets" and under an asset key at 6 and 7
override_heap(kind, overrides, override_assets, override_entry) ==
    <<[key \in {"assets", "properties"} |-> IF key = "assets" THEN Ref(3) ELSE Ref(4)],
      overrides,
      [key \in {asset_key(kind)} |-> Ref(5)],
      [key \in {"row_count"} |-> Num(10)],
      [key \in {"href", "roles", "title"} |->
          IF key = "href" THEN Str("generated")
          ELSE IF key = "roles" THEN Arr(<<asset_key(kind)>>) ELSE Str("title")],
      override_assets,
      override_entry>>

\* the operand types on which Python's "in" raises TypeError
in_raises(value) == value.t \in {"null", "num"}

\* key in value, for a dict, an array, or a string (no word of the model is part
\* of another, so a string holds key only when it is key)
in_test(h, key, value) ==
    IF value.t = "ref" THEN key \in DOMAIN h[value.v]
    ELSE IF value.t = "arr" THEN \E i \in DOMAIN value.v : value.v[i] = key
    ELSE value.v = key

Raised == [raised |-> TRUE, heap |-> <<>>, item |-> 0]

Built(h, item) == [raised |-> FALSE, heap |-> h, item |-> item]

\* the condition and the body of the loop over original_asset_hrefs, for the one
\* asset of the generated item (its href is never None); the body is
\* merged["assets"][key]["href"] = href, entry being merged["assets"][key]
restore_entry(h, merged, entry, href) ==
    IF in_raises(entry) THEN Raised
    ELSE IF in_test(h, "href", entry) THEN Built(h, merged)
    ELSE IF entry.t = "ref"
    THEN Built([h EXCEPT ![entry.v] = Put(@, "href", href)], merged)
    ELSE Raised

restore_href(h, merged, key, href) ==
    IF in_raises(h[merged]["assets"]) THEN Raised
    ELSE IF ~in_test(h, key, h[merged]["assets"]) THEN Built(h, merged)
    ELSE IF h[merged]["assets"].t # "ref" THEN Raised
    ELSE restore_entry(h, merged, h[h[merged]["assets"].v][key], href)

\* Asset.from_dict(entry) raises: the entry is not a dict or has no href
asset_from_dict_raises(h, entry) ==
    \/ entry.t # "ref"
    \/ "href" \notin DOMAIN h[entry.v]
    \/ h[entry.v]["href"].t # "str"

\* Item.from_dict(merged) raises on its assets
item_from_dict_raises(h, merged) ==
    \/ h[merged]["assets"].t \notin {"ref", "null"}
    \/ /\ h[merged]["assets"].t = "ref"
       /\ \E key \in DOMAIN h[h[merged]["assets"].v] :
             asset_from_dict_raises(h, h[h[merged]["assets"].v][key])

from_merged(r) ==
    IF r.raised THEN Raised
    ELSE IF item_from_dict_raises(r.heap, r.item) THEN Raised
    ELSE r

\* the block under "if item_overrides:" for the item of a kind, on the heap h
apply_item_overrides(h, kind) ==
    LET m == deep_merge_dict(h, 1, 2)
    IN  from_merged(restore_href(m.heap, m.result, asset_key(kind), h[5]["href"]))

\* the block is applied once, to the item of a kind and an override document:
\* the document, the dict it may hold under "assets" and the dict that one may
\* hold under an asset key. The document is non-empty, with "assets" and "title"
\* each absent, null, a string or the dict; under an asset key the dict, a
\* string, null, a number or an array
ApplyOverrides ==
    /\ fout = <<>>
    /\ \E kind \in Kinds : \E d \in ((Dicts({"assets", "title"}, {Ref(6), Null, Str("t")}) \ {<<>>}) \X Dicts({"data", "metadata"}, {Ref(7), Str("x"), Str("href"), Null, Num(1), Arr(<<>>)}) \X Dicts({"href", "title"}, {Str("t")})) :
          /\ fin' = [kind |-> kind, heap |-> override_heap(kind, d[1], d[2], d[3])]
          /\ fout' = apply_item_overrides(fin'.heap, kind)
    /\ UNCHANGED idleVars

SpecOverride == PureInit /\ [][ApplyOverrides]_vars

-----------------------------------------------------------------------------
(* The spatial resolver on its own *)

\* the bbox of one file, as discover_assets resolves it; the resolver is applied
\* once. The embedded geo metadata is none, or a block with or without a primary
\* column, a bbox for it (four values, three, or none) and a top-level bbox; the
\* coordinate columns are any of lon, x, lat, y, each with two rows, or all
\* without rows
ResolveBbox ==
    /\ fout = <<>>
    /\ \E g \in ({None} \cup {Some([primary_column |-> p, column_bbox |-> cb, bbox |-> tb]) : p \in {None, Some("geometry")}, cb \in {None, <<0, 0, 1, 1>>, <<0, 0, 1>>}, tb \in {None, <<1, 0, 2, 1>>}}) : \E c \in (UNION {[ks -> {<<1, 2>>, <<2, 0>>}] \cup [ks -> {<<>>}] : ks \in SUBSET {"lon", "x", "lat", "y"}}) :
          /\ fin' = [geo |-> g, coords |-> c]
          /\ fout' = Some(asset_bbox(fin'))
    /\ UNCHANGED idleVars

SpecBbox == PureInit /\ [][ResolveBbox]_vars

-----------------------------------------------------------------------------
(* Properties *)

C1_NoDuplicate(ids) == \A i, j \in 1..Len(ids) : i # j => ids[i] # ids[j]

C1_Elements(ids) == {ids[i] : i \in 1..Len(ids)}

\* C1: starting from an empty output directory, a run followed by an incremental
\* run over the unchanged inputs leaves, for data, metadata and plots, the same set
\* of item ids as the first run left, with no id listed twice; the second run
\* copies no file and creates no item.
C1_SecondRunIdempotent ==
    \A i \in 1..(Len(history) - 1) :
        (/\ history[i].empty_output
         /\ history[i + 1].incremental
         /\ history[i + 1].env = history[i].env
         /\ history[i + 1].root = history[i].root
         /\ history[i + 1].sidecars = history[i].sidecars
         /\ history[i + 1].plotfiles = history[i].plotfiles)
        => /\ \A k \in Kinds :
                /\ C1_Elements(history[i + 1].ids[k]) = C1_Elements(history[i].ids[k])
                /\ C1_NoDuplicate(history[i + 1].ids[k])
           /\ history[i + 1].copied = {}
           /\ history[i + 1].created = 0

\* C2: in an incremental run, the pass over a discovered asset whose data-item id
\* is already known copies nothing, creates no item, adds no link and leaves the
\* extent accumulator alone, whatever sidecar or plot is now available.
C2_SkipChangesNothing ==
    [][(/\ pc = "scan"
        /\ idx <= Len(records)
        /\ idx' = idx + 1
        /\ args.incremental
        /\ make_item_id(record_of(records[idx])) \in existing_ids["parquet"])
       => UNCHANGED <<assetFiles, copied, created, catalogs, has, existing_ids,
                      collection, discovered_models, disk, collectionJson>>]_vars

\* C2, the case: an asset was skipped in an incremental run although a sidecar
\* that the previous run did not have is there for its partition
C2_SkippedWithNewSidecar ==
    /\ pc = "scan"
    /\ args.incremental
    /\ args.metadata_prefix
    /\ idx > 1
    /\ history # <<>>
    /\ created = 0
    /\ copied = {}
    /\ LET record == record_of(records[idx - 1])
       IN  /\ make_item_id(record) \in existing_ids["parquet"]
           /\ Parent(record.relative_path) \in sidecars
           /\ Parent(record.relative_path) \notin history[Len(history)].sidecars
           /\ (make_item_id(record) \o Names.sfx_metadata) \notin existing_ids["metadata"]

\* C3: an incremental run leaves every previously persisted item of every kind in
\* place with the same id, bbox, interval, properties and asset href.
C3_PersistedItemsUnchanged ==
    [][(pc = "scan" /\ pc' = "idle" /\ args.incremental)
       => \A k \in Kinds :
             disk[k].state = "ok"
             => \A id \in DOMAIN disk[k].docs :
                   /\ id \in DOMAIN disk'[k].docs
                   /\ disk'[k].docs[id].bbox = disk[k].docs[id].bbox
                   /\ disk'[k].docs[id].start = disk[k].docs[id].start
                   /\ disk'[k].docs[id].end = disk[k].docs[id].end
                   /\ disk'[k].docs[id].properties = disk[k].docs[id].properties
                   /\ disk'[k].docs[id].href = disk[k].docs[id].href]_vars

C4_Present == {i \in 1..Len(fin) : fin[i] # None}

C4_Least(S) == CHOOSE x \in S : \A y \in S : x <= y

C4_Greatest(S) == CHOOSE x \in S : \A y \in S : x >= y

\* C4: the bbox of a fresh collection after folding items with bboxes B1..Bn is the
\* coordinate-wise (min, min, max, max) over the Bi that are present, it is still
\* the placeholder when none is, and [0,0,1,1] with [1,1,2,2] give [0,0,2,2].
C4_BboxIsMinMax ==
    /\ C4_Present = {} => fout.bbox = <<NaN, NaN, NaN, NaN>>
    /\ C4_Present # {} =>
          fout.bbox = <<C4_Least({fin[i][1] : i \in C4_Present}),
                        C4_Least({fin[i][2] : i \in C4_Present}),
                        C4_Greatest({fin[i][3] : i \in C4_Present}),
                        C4_Greatest({fin[i][4] : i \in C4_Present})>>
    /\ fin = << <<0, 0, 1, 1>>, <<1, 1, 2, 2>> >> => fout.bbox = <<0, 0, 2, 2>>

\* C4, the case: two overlapping boxes and an item without bbox were folded
C4_FoldedThree ==
    /\ fin = << <<0, 0, 1, 1>>, None, <<1, 1, 2, 2>> >>
    /\ fout.bbox = <<0, 0, 2, 2>>

C5_Contains(new, old) ==
    \/ IsNaN(old[1])
    \/ /\ ~IsNaN(new[1])
       /\ new[1] <= old[1] /\ new[2] <= old[2] /\ new[3] >= old[3] /\ new[4] >= old[4]

C5_Grows(new, old) ==
    /\ C5_Contains(new.bbox, old.bbox)
    /\ (old.start # None) => (new.start # None /\ new.start[1] <= old.start[1])
    /\ (old.end # None) => (new.end # None /\ new.end[1] >= old.end[1])

\* C5: during a run every step keeps the extent accumulator growing: the bbox
\* contains the bbox held before, the start does not move later, the end does not
\* move earlier, and a value that is set stays set.
C5_ExtentMonotonic ==
    [][(pc \in {"load", "scan"}) => C5_Grows(collection', collection)]_vars

\* C5, the case: a run has folded items whose boxes and intervals differ
C5_GrownByItems ==
    /\ pc = "scan"
    /\ idx > 3
    /\ collection.bbox = <<0, 0, 2, 2>>
    /\ collection.start = Some(T0)
    /\ collection.end = Some(T0 + 7)

RECURSIVE C6_Fold(_, _)
C6_Fold(acc, items) ==
    IF items = <<>> THEN acc
    ELSE C6_Fold(
             [bbox  |-> IF items[1].bbox = None THEN acc.bbox
                        ELSE IF IsNaN(acc.bbox[1]) THEN items[1].bbox
                        ELSE <<Min(acc.bbox[1], items[1].bbox[1]),
                               Min(acc.bbox[2], items[1].bbox[2]),
                               Max(acc.bbox[3], items[1].bbox[3]),
                               Max(acc.bbox[4], items[1].bbox[4])>>,
              start |-> IF items[1].start = None THEN acc.start
                        ELSE IF acc.start = None THEN items[1].start
                        ELSE Some(Min(acc.start[1], items[1].start[1])),
              end   |-> IF items[1].end = None THEN acc.end
                        ELSE IF acc.end = None THEN items[1].end
                        ELSE Some(Max(acc.end[1], items[1].end[1]))],
             Tail(items))

\* the items of a persisted sub-catalog, in the order of its item links
C6_Items(cat) == [i \in 1..Len(cat.links) |-> cat.docs[cat.links[i]]]

C6_Extent(doc) == [bbox |-> doc.bbox, start |-> doc.start, end |-> doc.end]

\* C6, as amended: the extent an incremental run writes is the fold, starting from
\* the placeholder bbox and the --temporal-start / --temporal-end overrides, over the
\* data items of the sub-catalog it writes (those reloaded and those created); the
\* prior collection.json has no part in it.
C6_ExtentIsFoldOverDataItems ==
    [][(pc = "scan" /\ idx > Len(records) /\ pc' = "idle" /\ args.incremental)
       => C6_Extent(collectionJson'[1])
            = C6_Fold([bbox |-> <<NaN, NaN, NaN, NaN>>,
                       start |-> args.temporal_start, end |-> args.temporal_end],
                      C6_Items(disk'["parquet"]))]_vars

\* C6, the case: an incremental run that reloaded data items and created others
\* has written its extent over a prior collection.json
C6_ReloadedAndCreated ==
    /\ pc = "idle"
    /\ Len(history) = 2
    /\ history[2].incremental
    /\ history[2].created > 0
    /\ history[1].ids["parquet"] # <<>>
    /\ Len(history[2].ids["parquet"]) > Len(history[1].ids["parquet"])
    /\ collectionJson # None

\* the items of the sub-catalogs d of the kinds in use, data items first
C6_AllItems(d, used) ==
    C6_Items(d["parquet"])
    \o (IF used["metadata"] THEN C6_Items(d["metadata"]) ELSE <<>>)
    \o (IF used["plots"] THEN C6_Items(d["plots"]) ELSE <<>>)

\* C6, as stated: the extent an incremental run writes is the fold over every item
\* reloaded or created, of every kind, into an accumulator with nothing set.
C6_ExtentIsFoldOverItemsOnly ==
    [][(pc = "scan" /\ idx > Len(records) /\ pc' = "idle" /\ args.incremental)
       => C6_Extent(collectionJson'[1])
            = C6_Fold(FreshExtent, C6_AllItems(disk', has))]_vars

C7_HasKey(path, key) == \E i \in 1..Len(path) : StartsWith(path[i], key \o <<"=">>)

\* the value of the last segment key=value of the path
C7_Value(path, key) ==
    LET i == CHOOSE i \in 1..Len(path) :
                 /\ StartsWith(path[i], key \o <<"=">>)
                 /\ \A j \in (i + 1)..Len(path) : ~StartsWith(path[j], key \o <<"=">>)
    IN  SubSeq(path[i], Len(key) + 2, Len(path[i]))

\* C7: the id is year+month+day+"T"+hour when the path carries all four
\* coordinates (year=2025/month=01/day=02/hour=03 gives 20250102T03); otherwise it
\* is the file name without its extension, each dot a hyphen, in lower case. The
\* id is decided by the path alone.
C7_IdFromCoordinatesOrName ==
    fout # <<>> =>
        /\ (\A key \in {PartitionKeys.year, PartitionKeys.month, PartitionKeys.day, PartitionKeys.hour} : C7_HasKey(fin, key))
              => fout = C7_Value(fin, PartitionKeys.year) \o C7_Value(fin, PartitionKeys.month)
                          \o C7_Value(fin, PartitionKeys.day) \o <<"T">> \o C7_Value(fin, PartitionKeys.hour)
        /\ (\E key \in {PartitionKeys.year, PartitionKeys.month, PartitionKeys.day, PartitionKeys.hour} : ~C7_HasKey(fin, key))
              => LET name == Last(fin)
                     n == RFind(name, ".") - 1
                 IN  /\ Len(fout) = n
                     /\ \A i \in 1..n :
                           fout[i] = IF name[i] = "." THEN "-" ELSE LowerChar(name[i])
        /\ SubSeq(fin, 1, Len(fin) - 1) = <<Seg.y2025, Seg.m01, Seg.d02, Seg.h03>>
              => fout = <<"2", "0", "2", "5", "0", "1", "0", "2", "T", "0", "3">>

\* C7, the case: a file outside a full partition, with capitals and an inner dot
C7_NamedAfterFile ==
    /\ fin = <<Seg.y2025, Seg.m01, Seg.grid>>
    /\ fout = <<"g", "r", "i", "d", "-", "v", "1">>

\* C8: every asset href of every persisted item, resolved against the item's
\* directory items/<kind>/<id>/, names a file copied under assets/<kind>/.
C8_AssetHrefsResolve ==
    \A k \in Kinds :
        \A id \in DOMAIN disk[k].docs :
            LET target == Resolve(items_root(k) \o <<id>>, disk[k].docs[id].href)
            IN  /\ StartsWith(target, assets_root(k))
                /\ target \in assetFiles

\* the items of the sub-catalog of kind k, when the collection has that child
C9_Docs(k) ==
    IF k \in collectionJson[1].children
    THEN {disk[k].docs[id] : id \in DOMAIN disk[k].docs}
    ELSE {}

C9_Links(item, rel) == {item.links[i].title : i \in {j \in 1..Len(item.links) : item.links[j].rel = rel}}

\* C9: after a run, a data item links to a metadata item with describedby exactly
\* when that metadata item links back with describes, a data item and a plot item
\* are related in both directions or in none, and a data item has at most one
\* metadata item.
C9_LinksSymmetric ==
    (pc = "idle" /\ collectionJson # None)
    => /\ \A d \in C9_Docs("parquet") :
             /\ \A t \in C9_Links(d, "describedby") :
                   \E m \in C9_Docs("metadata") : m.id = t /\ d.id \in C9_Links(m, "describes")
             /\ \A t \in C9_Links(d, "related") :
                   \E p \in C9_Docs("plots") : p.id = t /\ d.id \in C9_Links(p, "related")
             /\ Cardinality(C9_Links(d, "describedby")) <= 1
       /\ \A m \in C9_Docs("metadata") :
             \A t \in C9_Links(m, "describes") :
                \E d \in C9_Docs("parquet") : d.id = t /\ m.id \in C9_Links(d, "describedby")
       /\ \A p \in C9_Docs("plots") :
             \A t \in C9_Links(p, "related") :
                \E d \in C9_Docs("parquet") : d.id = t /\ p.id \in C9_Links(d, "related")

\* the UTC instant of a cell that parses: a value without timezone is UTC
C10_Utc(cell) == IF cell.tz = None THEN cell.local ELSE cell.local - cell.tz[1]

C10_Parsable(column) == \A i \in 1..Len(column) : column[i].k \in {"dt", "str"}

\* C10: for a file with start_datetime and end_datetime columns and also a single
\* timestamp, datetime, time or date column, every value parsable, the bounds are
\* (the least start_datetime, the greatest end_datetime), values without timezone
\* read as UTC.
C10_PairOutranksSingle ==
    (/\ fout # <<>>
     /\ {"start_datetime", "end_datetime"} \subseteq DOMAIN fin
     /\ {"timestamp", "datetime", "time", "date"} \cap DOMAIN fin # {}
     /\ \A c \in DOMAIN fin : C10_Parsable(fin[c]))
    => fout = <<Some(C4_Least({C10_Utc(fin["start_datetime"][i]) :
                                  i \in 1..Len(fin["start_datetime"])})),
                Some(C4_Greatest({C10_Utc(fin["end_datetime"][i]) :
                                  i \in 1..Len(fin["end_datetime"])}))>>

\* the partition coordinates of a path give no instant: there is no year, or a
\* coordinate is not a number, or the numbers are no calendar date and hour
C11_NoPartitionInstant(path) ==
    \/ ~C7_HasKey(path, PartitionKeys.year)
    \/ LET value(key, default) == IF C7_HasKey(path, key) THEN C7_Value(path, key)
                                  ELSE default
           y == value(PartitionKeys.year, <<"1">>)
           m == value(PartitionKeys.month, <<"1">>)
           d == value(PartitionKeys.day, <<"1">>)
           h == value(PartitionKeys.hour, <<"0">>)
       IN  \/ ~IsDigits(y) \/ ~IsDigits(m) \/ ~IsDigits(d) \/ ~IsDigits(h)
           \/ ~ValidDate(ParseInt(y), ParseInt(m), ParseInt(d), ParseInt(h))

\* neither a temporal column nor the partition coordinates give the interval
C11_Unresolved(a) ==
    /\ \A c \in DOMAIN Asset(a).cols :
          \A i \in 1..Len(Asset(a).cols[c]) : Asset(a).cols[c][i].k \notin {"dt", "str"}
    /\ C11_NoPartitionInstant(Asset(a).path)

\* a run over a directory with assets, some of them without a derivable interval,
\* whose reload of the data sub-catalog does not fail, goes on to its loops
C11_Discovery(a) ==
    (/\ StartRun(a)
     /\ root_is_directory(a)
     /\ discover_assets(root) # <<>>
     /\ \E i \in 1..Len(discover_assets(root)) : C11_Unresolved(discover_assets(root)[i])
     /\ ~(a.incremental /\ load_raises("parquet")))
    => pc' # "idle"

\* the pass over an asset without a derivable interval that is not skipped and
\* whose data file is copied adds its data item without start and end, and
\* leaves the interval of the collection alone
C11_Item ==
    (/\ pc = "scan"
     /\ idx' = idx + 1
     /\ C11_Unresolved(records[idx])
     /\ ~known_asset(make_item_id(record_of(records[idx]))))
    => /\ Len(catalogs'["parquet"]) = Len(catalogs["parquet"]) + 1
       /\ Last(catalogs'["parquet"]).id = make_item_id(record_of(records[idx]))
       /\ Last(catalogs'["parquet"]).start = None
       /\ Last(catalogs'["parquet"]).end = None
       /\ collection'.start = collection.start
       /\ collection'.end = collection.end

C11_Step == (\A a \in ArgSets : C11_Discovery(a)) /\ C11_Item

\* C11: an asset whose interval can be derived neither from a temporal column nor
\* from its partition coordinates (no year, a coordinate that is not a number,
\* coordinates that are no calendar instant) does not end the run: its data item
\* is made without start and end, and the interval of the collection is unchanged.
C11_UnresolvedIntervalNotFatal == [][C11_Step]_vars

\* the items made in this run (an item read back has a self href) whose asset is
\* a file of F
C12_ItemsOf(cats, F) ==
    {<<k, i>> \in Kinds \X (1..3) :
        /\ i <= Len(cats[k])
        /\ cats[k][i].self = None
        /\ Resolve(items_root(k) \o <<cats[k][i].id>>, cats[k][i].href) \in F}

C12_Step ==
    /\ (pc = "scan" /\ failed' # failed) => (pc' = "idle" /\ catalogs' = catalogs)
    /\ (pc = "scan" /\ pc' = "scan") => C12_ItemsOf(catalogs', failed' \ copied') = {}

\* C12: when the copy of a data file, of a sidecar that exists or of a plot image
\* fails, the run ends there with nothing more cataloged; and while a run goes
\* on, no item is cataloged for a file whose copy failed (and did not succeed for
\* a later asset of the same partition).
C12_CopyFailureIsFatal == [][C12_Step]_vars

\* the persisted sub-catalog of kind k cannot be parsed: its catalog.json or an
\* item document it references
C13_Unparsable(k) ==
    disk[k].dir = items_root(k) /\ disk[k].state \in {"corrupt", "baditem"}

\* the assets discovered give the sub-catalog of kind k something to hold
C13_HasSource(k) ==
    \E i \in 1..Len(records) :
        CASE k = "parquet" -> TRUE
          [] k = "metadata" ->
               args.metadata_prefix /\ Parent(Asset(records[i]).path) \in sidecars
          [] k = "plots" ->
               args.plots_prefix /\ \E f \in plotfiles : Parent(f) = Parent(Asset(records[i]).path)

\* the start of an incremental run over a root with assets, the data sub-catalog
\* unparsable: the run goes on with nothing reloaded
C13_Start(a) ==
    (/\ StartRun(a)
     /\ a.incremental
     /\ C13_Unparsable("parquet")
     /\ root_is_directory(a)
     /\ discover_assets(root) # <<>>
     /\ \A i \in 1..Len(discover_assets(root)) : ~record_of(discover_assets(root)[i]).raised)
    => (pc' = "load" /\ pending' = <<>>)

C13_Step ==
    /\ \A a \in ArgSets : C13_Start(a)
    /\ \A k \in {"metadata", "plots"} :
          (pc = "load" /\ pending = <<>> /\ pc' # "load" /\ C13_Unparsable(k))
          => (pc' = "scan" /\ catalogs'[k] = <<>> /\ existing_ids'[k] = {})
    /\ \A k \in Kinds :
          (/\ pc = "scan" /\ idx > Len(records) /\ pc' = "idle"
           /\ args.incremental /\ failed = {}
           /\ C13_Unparsable(k) /\ C13_HasSource(k))
          => (/\ disk'[k].state = "ok"
              /\ \A i \in 1..Len(catalogs[k]) : catalogs[k][i].self = None)

\* C13: in an incremental run a persisted sub-catalog that cannot be parsed
\* (catalog.json, or an item document) gives no known id and no extent, the run
\* goes on, and the sub-catalog is written again from the assets of this run.
C13_UnparsableCatalogIsRebuilt == [][C13_Step]_vars

\* the ids an incremental run would take as known from the sub-catalog d
C14_Known(d, k) ==
    IF d[k].state = "ok" /\ d[k].dir = items_root(k)
    THEN {d[k].links[i] : i \in 1..Len(d[k].links)}
    ELSE {}

C14_Step ==
    /\ (disk' # disk \/ collectionJson' # collectionJson)
       => \/ pc = "scan" /\ idx > Len(records) /\ pc' = "idle"
          \/ pc = "idle" /\ envSteps' = envSteps + 1
    /\ (pc \in {"load", "scan"} /\ idx <= Len(records) /\ pc' = "idle")
       => /\ UNCHANGED <<disk, collectionJson>>
          /\ \A k \in Kinds : C14_Known(disk', k) = C14_Known(disk, k)

\* C14: collection.json, the catalog.json files and the item documents change
\* only in the step that follows the pass over the last discovered asset (or
\* from outside, between runs); a run that ends during its loops leaves them,
\* and with them the ids the next incremental run takes as known, as they were.
C14_DocumentsWrittenAtEnd == [][C14_Step]_vars

\* C14, the case: after a completed run, a second run has copied a file and then
\* ended on a failed copy, before its last asset
C14_AbortedAfterCopy ==
    /\ pc = "idle"
    /\ runs = 2
    /\ Len(history) = 1
    /\ collectionJson # None
    /\ disk["parquet"].state = "ok"
    /\ failed # {}
    /\ copied # {}
    /\ idx > 1
    /\ idx <= Len(records)

C15_Hrefs(links, rel) == {links[i].href : i \in {j \in 1..Len(links) : links[j].rel = rel}}

C15_Relocated(k, cat, coll) ==
    /\ cat.state = "ok"
    /\ cat.dir = <<Names.items, KindSeg(k)>>
    /\ cat.dir # <<collection_id \o <<"-">> \o KindSeg(k)>>
    /\ C15_Hrefs(cat.cat_links, "parent") = {<<DotDot, DotDot, Names.collection_json>>}
    /\ C15_Hrefs(cat.cat_links, "root") = {<<DotDot, DotDot, Names.collection_json>>}
    /\ <<Dot, Names.items, KindSeg(k), Names.catalog_json>> \in C15_Hrefs(coll.links, "child")
    /\ <<Dot, collection_id \o <<"-">> \o KindSeg(k), Names.catalog_json>>
          \notin C15_Hrefs(coll.links, "child")

C15_Step ==
    (pc = "scan" /\ idx > Len(records) /\ pc' = "idle")
    => /\ \A k \in Kinds : has[k] => C15_Relocated(k, disk'[k], collectionJson'[1])
       /\ C15_Hrefs(collectionJson'[1].links, "self") = {}

\* C15: after persistence every sub-catalog that was saved is at items/<kind>
\* and not at <collection-id>-<kind>, the parent and root links of its
\* catalog.json are ../../collection.json, collection.json has the child link
\* ./items/<kind>/catalog.json and none to the place it was saved at, and
\* collection.json has no link with rel self.
C15_SubcatalogsRelocated == [][C15_Step]_vars

\* C15, the case: a run has saved and relocated all three sub-catalogs
C15_ThreeRelocated ==
    /\ pc = "idle"
    /\ collectionJson # None
    /\ collectionJson[1].children = Kinds
    /\ \A k \in Kinds : disk[k].state = "ok" /\ disk[k].dir = items_root(k)
    /\ Len(collectionJson[1].links) = 4

\* the value of the dict at address a: each reference replaced by the map it
\* points to
RECURSIVE C16_Value(_, _)
C16_Value(h, a) ==
    [key \in DOMAIN h[a] |->
        IF h[a][key].t = "ref" THEN [t |-> "map", v |-> C16_Value(h, h[a][key].v)]
        ELSE h[a][key]]

RECURSIVE C16_Merged(_, _)
C16_Merged(base, extra) ==
    [key \in (DOMAIN base) \cup (DOMAIN extra) |->
        IF key \in DOMAIN base /\ key \in DOMAIN extra
           /\ base[key].t = "map" /\ extra[key].t = "map"
        THEN [t |-> "map", v |-> C16_Merged(base[key].v, extra[key].v)]
        ELSE IF key \in DOMAIN extra THEN extra[key]
        ELSE base[key]]

\* C16: deep_merge_dict(base, extra) has, for every key, the recursive merge when
\* both hold a map under it, else the value of extra when extra has the key (an
\* array or a scalar replaces what was there), else the value of base;
\* {"properties": {"x": 1}} merged into {"properties": {"row_count": 10}} gives
\* {"properties": {"row_count": 10, "x": 1}}; no dict that existed before the
\* call is changed by it.
C16_DeepMerge ==
    fout # <<>> =>
        /\ C16_Value(fout.heap, fout.result)
              = C16_Merged(C16_Value(fin, 1), C16_Value(fin, 2))
        /\ \A a \in 1..Len(fin) : fout.heap[a] = fin[a]
        /\ fout.result \notin 1..Len(fin)
        /\ (/\ C16_Value(fin, 1)
                 = [key \in {"properties"} |->
                      [t |-> "map", v |-> [k \in {"row_count"} |-> Num(10)]]]
            /\ C16_Value(fin, 2)
                 = [key \in {"properties"} |->
                      [t |-> "map", v |-> [k \in {"x"} |-> Num(1)]]])
           => C16_Value(fout.heap, fout.result)
                 = [key \in {"properties"} |->
                      [t |-> "map",
                       v |-> [k \in {"row_count", "x"} |->
                                IF k = "x" THEN Num(1) ELSE Num(10)]]]

\* C16, the case: maps three levels deep were merged, an array of extra replaced
\* a number of base, and a key of base alone was kept
C16_NestedAndReplaced ==
    /\ fout # <<>>
    /\ fin[1] = [key \in {"properties", "x"} |-> IF key = "x" THEN Num(1) ELSE Ref(3)]
    /\ fin[2] = [key \in {"properties", "x"} |-> IF key = "x" THEN Arr(<<1>>) ELSE Ref(3)]
    /\ fin[3] = [key \in {"row_count", "x"} |-> IF key = "x" THEN Ref(4) ELSE Num(10)]
    /\ fin[4] = [key \in {"x"} |-> Arr(<<10>>)]
    /\ Len(fout.heap) = 7
    /\ C16_Value(fout.heap, fout.result)["x"] = Arr(<<1>>)

\* the override document holds a dict under "assets", or no "assets" at all
C17_AssetsIsMap(h) == "assets" \in DOMAIN h[2] => h[2]["assets"] = Ref(6)

\* the override document supplies an href for the asset of the item
C17_SuppliesHref(h, key) ==
    /\ "assets" \in DOMAIN h[2]
    /\ key \in DOMAIN h[6]
    /\ h[6][key] = Ref(7)
    /\ "href" \in DOMAIN h[7]

C17_Asset(r, key) == r.heap[r.heap[r.heap[r.item]["assets"].v][key].v]

\* C17: for every item kind and every override document whose "assets" member is
\* absent or a map, applying the override does not raise, the asset of the
\* generated item still has an href afterwards, and that href is the generated
\* one unless the override's entry for the asset supplies an href.
C17_AssetHrefKept ==
    (fout # <<>> /\ C17_AssetsIsMap(fin.heap)) =>
        /\ ~fout.raised
        /\ "href" \in DOMAIN C17_Asset(fout, asset_key(fin.kind))
        /\ ~C17_SuppliesHref(fin.heap, asset_key(fin.kind))
              => C17_Asset(fout, asset_key(fin.kind))["href"] = fin.heap[5]["href"]

C18_Models(items) == UNION {SourceModels(items[i]) : i \in 1..Len(items)}

C18_Elements(list) == {list[i] : i \in 1..Len(list)}

\* the position of a model name in lexicographic order
C18_Rank(m) == CHOOSE i \in 1..Len(ModelNames) : ModelNames[i] = m

C18_SortedNoDuplicates(list) ==
    \A i, j \in 1..Len(list) : i < j => C18_Rank(list[i]) < C18_Rank(list[j])

\* the data items made by the run that is about to persist: they have no self
\* href yet
C18_Created == SelectSeq(catalogs["parquet"], LAMBDA item : item.self = None)

C18_Prior == IF collectionJson = None THEN {} ELSE C18_Elements(collectionJson[1].source_models)

C18_Union ==
    C18_Models(C18_Created)
        \cup (IF args.incremental
              THEN C18_Models(load_existing_items("parquet")) \cup C18_Prior
              ELSE {})

C18_Step ==
    (pc = "scan" /\ idx > Len(records) /\ pc' = "idle") =>
        /\ C18_Elements(collectionJson'[1].source_models) = C18_Union
        /\ C18_SortedNoDuplicates(collectionJson'[1].source_models)
        /\ args.incremental => C18_Prior \subseteq C18_Elements(collectionJson'[1].source_models)

C19_Accepted(a) ==
    \/ EndsWith(Last(Asset(a).path), <<".", "p", "a", "r", "q", "u", "e", "t">>)
    \/ EndsWith(Last(Asset(a).path), <<".", "g", "e", "o", "p", "a", "r", "q", "u", "e", "t">>)

\* a step that starts a run changes nothing under the output directory, and
\* the run goes on past its start only with the arguments it was given naming
\* a directory that holds an accepted file
C19_Step ==
    (pc = "idle" /\ runs' = runs + 1) =>
        /\ UNCHANGED <<disk, collectionJson, assetFiles>>
        /\ pc' # "idle" =>
              /\ args'.input_root = "dir"
              /\ \E a \in root : C19_Accepted(a)

\* C19: when the input root does not exist or is not a directory, or holds no
\* file ending in .parquet or .geoparquet, the run ends at its start, with
\* nothing created or changed under the output directory.
C19_BadRootAbortsBeforeAnyChange == [][C19_Step]_vars

\* C19, the case: of two runs one completed and one ended at its start (the
\* root was no directory, or had lost its only file), and the documents of the
\* completed run are in place
C19_AbortedRun ==
    /\ pc = "idle"
    /\ runs = 2
    /\ Len(history) = 1
    /\ root = {}
    /\ collectionJson # None
    /\ disk["parquet"].state = "ok"

\* the bbox recorded for the primary geometry column, when it has four values
C20_ColumnBox(file) ==
    IF /\ file.geo # None
       /\ file.geo[1].primary_column # None
       /\ Len(file.geo[1].column_bbox) = 4
    THEN file.geo[1].column_bbox
    ELSE None

\* the top-level bbox of the embedded metadata, when it has four values
C20_TopBox(file) ==
    IF file.geo # None /\ Len(file.geo[1].bbox) = 4 THEN file.geo[1].bbox ELSE None

C20_Min(values) ==
    CHOOSE m \in {values[i] : i \in 1..Len(values)} :
        \A i \in 1..Len(values) : m <= values[i]

C20_Max(values) ==
    CHOOSE m \in {values[i] : i \in 1..Len(values)} :
        \A i \in 1..Len(values) : m >= values[i]

\* the first name of the priority list the file has a column for
C20_First(names, file) ==
    CHOOSE i \in 1..Len(names) :
        /\ names[i] \in DOMAIN file.coords
        /\ \A j \in 1..(i - 1) : names[j] \notin DOMAIN file.coords

C20_Box(lon, lat) ==
    IF lon = <<>> \/ lat = <<>> THEN None
    ELSE <<C20_Min(lon), C20_Min(lat), C20_Max(lon), C20_Max(lat)>>

\* min/max over the file of its first longitude-like and its first latitude-like
\* column; none when it lacks either or has no rows
C20_ScanBox(file) ==
    IF \/ DOMAIN file.coords \cap {"lon", "longitude", "x"} = {}
       \/ DOMAIN file.coords \cap {"lat", "latitude", "y"} = {}
    THEN None
    ELSE C20_Box(file.coords[<<"lon", "longitude", "x">>[C20_First(<<"lon", "longitude", "x">>, file)]],
                 file.coords[<<"lat", "latitude", "y">>[C20_First(<<"lat", "latitude", "y">>, file)]])

\* C20: the bbox of an asset is the four-value bbox recorded for the primary
\* geometry column of the embedded geo metadata; without one, the four-value
\* top-level bbox of that metadata; without that, the min/max over the whole
\* file of the column pair made of the first of lon, longitude, x and the first
\* of lat, latitude, y that the file has. A later source is not used when an
\* earlier one gives a four-value box.
C20_BboxSourcePriority ==
    fout # <<>> =>
        fout[1] = IF C20_ColumnBox(fin) # None THEN C20_ColumnBox(fin)
                  ELSE IF C20_TopBox(fin) # None THEN C20_TopBox(fin)
                  ELSE C20_ScanBox(fin)

\* C20, the case: a file with a bbox for its primary column, a top-level bbox and
\* coordinate columns got the bbox of the primary column
C20_ColumnBoxUsedFirst ==
    /\ fout = <<<<0, 0, 1, 1>>>>
    /\ C20_TopBox(fin) = <<1, 0, 2, 1>>
    /\ C20_ScanBox(fin) = <<0, 1, 2, 2>>

C21_Record == record_of(records[idx])

\* the items a step of the scan loop adds to the sub-catalog of a kind
C21_Added(k) == SubSeq(catalogs'[k], Len(catalogs[k]) + 1, Len(catalogs'[k]))

C21_Step ==
    (pc = "scan" /\ idx <= Len(records) /\ C21_Record.bbox = None) =>
        /\ pc' = "idle" => failed' # failed
        /\ idx' = idx + 1 =>
              /\ pc' = "scan"
              /\ C21_Record.relative_path \in warned'
              /\ collection'.bbox = collection.bbox
              /\ \A k \in Kinds : \A i \in 1..Len(C21_Added(k)) : C21_Added(k)[i].bbox = None
              /\ ~(args.incremental /\ make_item_id(C21_Record) \in existing_ids["parquet"])
                    => /\ Len(C21_Added("parquet")) = 1
                       /\ C21_Added("parquet")[1].id = make_item_id(C21_Record)

\* C21: a record without a bbox is warned about and does not end the run (the
\* run ends at such a record only on a failed copy); when it is not skipped, a data
\* item is added for it, that item and the companions added with it have no bbox,
\* and the bbox of the collection's extent stays what it was.
C21_NoBboxItemStillProduced == [][C21_Step]_vars

\* C21, the case: a data item and a metadata item without bbox were made after a
\* warning, and the run went on to give the collection the bbox of another asset
C21_ItemAndCompanionWithoutBbox ==
    /\ pc = "scan"
    /\ warned # {}
    /\ ~IsNaN(collection.bbox[1])
    /\ \E i \in 1..Len(catalogs["parquet"]) :
          catalogs["parquet"][i].bbox = None /\ catalogs["parquet"][i].self = None
    /\ \E i \in 1..Len(catalogs["metadata"]) :
          catalogs["metadata"][i].bbox = None /\ catalogs["metadata"][i].self = None

C22_Has(key) == \E i \in 1..Len(fin.path) : StartsWith(fin.path[i], key \o <<"=">>)

\* the text after "=" of the path segment of a key
C22_Text(key) ==
    LET seg == fin.path[CHOOSE i \in 1..Len(fin.path) : StartsWith(fin.path[i], key \o <<"=">>)]
    IN  SubSeq(seg, Len(key) + 2, Len(seg))

C22_Numbers ==
    {<<"2", "0", "2", "5">>, <<"0", "1">>, <<"0", "2">>, <<"1", "2">>, <<"1", "3">>,
     <<"3", "1">>, <<"0", "3">>, <<"2", "3">>, <<"2", "4">>}

C22_Int(text) ==
    CASE text = <<"2", "0", "2", "5">> -> 2025
      [] text = <<"0", "1">> -> 1
      [] text = <<"0", "2">> -> 2
      [] text = <<"1", "2">> -> 12
      [] text = <<"1", "3">> -> 13
      [] text = <<"3", "1">> -> 31
      [] text = <<"0", "3">> -> 3
      [] text = <<"2", "3">> -> 23
      [] text = <<"2", "4">> -> 24

\* the coordinate of a key, or its default when the path has no such segment
C22_Coord(key, default) == IF C22_Has(key) THEN C22_Int(C22_Text(key)) ELSE default

C22_Start ==
    Hours(C22_Coord(PartitionKeys.year, 0), C22_Coord(PartitionKeys.month, 1),
          C22_Coord(PartitionKeys.day, 1), C22_Coord(PartitionKeys.hour, 0))

\* every coordinate the path has is a number, and with the defaults they name an
\* hour of the calendar (the months of the model are January, February, December)
C22_CalendarHour ==
    /\ \A key \in {PartitionKeys.year, PartitionKeys.month, PartitionKeys.day,
                    PartitionKeys.hour} : C22_Has(key) => C22_Text(key) \in C22_Numbers
    /\ C22_Coord(PartitionKeys.month, 1) \in 1..12
    /\ C22_Coord(PartitionKeys.day, 1)
          \in 1..(IF C22_Coord(PartitionKeys.month, 1) = 2 THEN 28 ELSE 31)
    /\ C22_Coord(PartitionKeys.hour, 0) \in 0..23

C22_OneHourFromStart ==
    /\ ~fout.raised
    /\ fout.start # None
    /\ fout.start = Some(C22_Start)
    /\ fout.end = Some(C22_Start + 1)

\* C22 as stated: when no temporal column is usable and the path has a year
\* coordinate, the interval starts at (year, month or 1, day or 1, hour or 0) UTC
\* and ends one hour later.
C22_IntervalFromYear ==
    (fout # <<>> /\ C22_Has(PartitionKeys.year)) => C22_OneHourFromStart

\* C22, amended: when no temporal column is usable, the path has a year
\* coordinate, and the coordinates it has are numbers that name an hour of the
\* calendar, the interval starts at (year, month or 1, day or 1, hour or 0) UTC and
\* ends one hour later.
C22_IntervalFromCalendarHour ==
    (fout # <<>> /\ C22_Has(PartitionKeys.year) /\ C22_CalendarHour) => C22_OneHourFromStart

\* C22, the case: a path with year and hour only got the first of January, hour
\* 23, and the hour after it
C22_DefaultsApplied ==
    /\ fout # <<>>
    /\ fin.path = <<Seg.y2025, PartitionKeys.hour \o <<"=", "2", "3">>, Seg.data>>
    /\ fout.start = Some(Hours(2025, 1, 1, 23))
    /\ fout.end = Some(Hours(2025, 1, 1, 23) + 1)

\* the number of "=" in a segment
C23_Equals(segment) == Cardinality({i \in 1..Len(segment) : segment[i] = "="})

\* the segments of the path with exactly one "=", by position
C23_Pairs == {i \in 1..Len(fin) : C23_Equals(fin[i]) = 1}

C23_Key(i) == SubSeq(fin[i], 1, (CHOOSE j \in 1..Len(fin[i]) : fin[i][j] = "=") - 1)

C23_Value(i) ==
    SubSeq(fin[i], (CHOOSE j \in 1..Len(fin[i]) : fin[i][j] = "=") + 1, Len(fin[i]))

\* C23 as stated: the partitions are the key=value pairs of exactly the segments
\* with one "=" (the last segment of a key gives its value); segments without "="
\* and segments with two or more give nothing.
C23_PairIffExactlyOneEquals ==
    fout # <<>> =>
        /\ DOMAIN fout.parts = {C23_Key(i) : i \in C23_Pairs}
        /\ \A i \in C23_Pairs :
              (\A j \in C23_Pairs : j > i => C23_Key(j) # C23_Key(i))
                  => fout.parts[C23_Key(i)] = C23_Value(i)

\* C23, on the paths whose segments have no "=" or one "=" after a key: there
\* the partitions are the pairs of the segments with one "="
C23_PairOfPlainSegments ==
    (fout # <<>> /\ \A i \in 1..Len(fin) :
                      C23_Equals(fin[i]) <= 1 /\ (fin[i] # <<>> => fin[i][1] # "="))
        => /\ DOMAIN fout.parts = {C23_Key(i) : i \in C23_Pairs}
           /\ \A i \in C23_Pairs :
                 (\A j \in C23_Pairs : j > i => C23_Key(j) # C23_Key(i))
                     => fout.parts[C23_Key(i)] = C23_Value(i)

\* the files of the root that discovery keeps
C24_Matching ==
    {a \in fin.files : \E ext \in extension_filter : EndsWith(Last(Asset(a).path), ext)}

\* a sequence holds every kept file of the root once, in ascending order of the
\* text of the relative path
C24_InPathOrder(found) ==
    /\ Len(found) = Cardinality(C24_Matching)
    /\ {found[i] : i \in 1..Len(found)} = C24_Matching
    /\ \A i, j \in 1..Len(found) :
          i < j => StrLess(PathStr(Asset(found[i]).path), PathStr(Asset(found[j]).path))

C25_Classified(mesh, variogram, component, marked) ==
    IF mesh
    THEN /\ fout.description = Some(<<"mesh">>)
         /\ DOMAIN fout.properties = {"plot_type"}
         /\ fout.properties["plot_type"] = "grid-mesh"
    ELSE IF variogram
    THEN /\ fout.description # None
         /\ DOMAIN fout.properties = {"plot_type", "plot_component", "plot_variant"}
         /\ fout.properties["plot_type"] = "variogram"
         /\ fout.properties["plot_component"] = component
         /\ fout.properties["plot_variant"]
               = (IF marked THEN "regression-kriging" ELSE "ordinary-kriging")
    ELSE /\ fout.description = None
         /\ DOMAIN fout.properties = {}

\* a part of the name with its capitals made small
C25_Small(part) ==
    CASE part = <<"G", "r", "i", "d", "_", "P", "o", "i", "n", "t", "s">> -> Names.grid_points
      [] part = <<"V", "a", "r", "i", "o", "g", "r", "a", "m", "_">> -> Names.variogram
      [] part = <<"U">> -> <<"u">>
      [] part = <<"_", "R", "K", "T">> -> Names.rkt
      [] OTHER -> part

\* C25 as stated: a name beginning with grid_points is the mesh, a name of the
\* pattern variogram_<u|v>[_rkt]_empirical_* is the variogram of that letter,
\* regression-kriging exactly with the marker, and any other name has no
\* description and no plot_type.
C25_ClassifiedByName ==
    fout # <<>> =>
        C25_Classified(fin.parts[1] = Names.grid_points,
                       /\ fin.parts[1] = Names.variogram
                       /\ fin.parts[2] \in {<<"u">>, <<"v">>}
                       /\ fin.parts[3] \in {<<>>, Names.rkt}
                       /\ fin.parts[4] = Names.empirical,
                       fin.parts[2][1],
                       fin.parts[3] = Names.rkt)

\* C25, amended: the same with the patterns applied to the name in small
\* letters, the component being the small letter.
C25_ClassifiedBySmallName ==
    fout # <<>> =>
        C25_Classified(C25_Small(fin.parts[1]) = Names.grid_points,
                       /\ C25_Small(fin.parts[1]) = Names.variogram
                       /\ C25_Small(fin.parts[2]) \in {<<"u">>, <<"v">>}
                       /\ C25_Small(fin.parts[3]) \in {<<>>, Names.rkt}
                       /\ fin.parts[4] = Names.empirical,
                       C25_Small(fin.parts[2])[1],
                       C25_Small(fin.parts[3]) = Names.rkt)

\* C25, the case: Variogram_U_RKT_empirical_.png is classified as the
\* regression-kriging variogram of u
C25_CapitalsClassified ==
    /\ fout # <<>>
    /\ fin.parts = <<<<"V", "a", "r", "i", "o", "g", "r", "a", "m", "_">>, <<"U">>, <<"_", "R", "K", "T">>, Names.empirical>>
    /\ fout.properties["plot_component"] = "u"
    /\ fout.properties["plot_variant"] = "regression-kriging"

\* collection.json as written has a child link to the sub-catalog of a kind, at
\* its final place or at the place it was saved to
C26_Child(k) ==
    \E i \in 1..Len(collectionJson'[1].links) :
        /\ collectionJson'[1].links[i].rel = "child"
        /\ collectionJson'[1].links[i].href
              \in {<<Dot>> \o items_root(k) \o <<Names.catalog_json>>,
                   <<Dot>> \o catalog_root(k) \o <<Names.catalog_json>>}

C26_Step ==
    (pc = "scan" /\ idx > Len(records) /\ pc' = "idle") =>
        \A k \in Kinds :
            /\ C26_Child(k) <=> catalogs[k] # <<>>
            /\ catalogs[k] # <<>> =>
                  /\ disk'[k].state = "ok"
                  /\ DOMAIN disk'[k].docs = IdSet(catalogs[k])
            /\ catalogs[k] = <<>> => disk'[k] = disk[k]

\* C26: when a run persists, collection.json links the sub-catalog of a kind as
\* child if and only if the sub-catalog holds at least one item, reloaded or
\* created; such a sub-catalog is written with its items, and for a kind without
\* items nothing is written.
C26_ChildIffItems == [][C26_Step]_vars

\* C26, the case: an incremental run that created nothing persisted a collection
\* with the data sub-catalog as child, for its reloaded items, and without the
\* plot sub-catalog
C26_ReloadedOnlyChild ==
    /\ pc = "idle"
    /\ Len(history) = 2
    /\ history[2].incremental
    /\ history[2].created = 0
    /\ collectionJson # None
    /\ collectionJson[1].children = {"parquet"}
    /\ \E i \in 1..Len(collectionJson[1].links) :
          collectionJson[1].links[i]
              = HrefLink("child", <<Dot>> \o items_root("parquet") \o <<Names.catalog_json>>)

\* the documents of the persisted items, as paths under the output directory
C27_Documents ==
    UNION {{item_href(disk[k].dir, id) : id \in DOMAIN disk[k].docs} : k \in Kinds}

\* C27, for the describes, describedby and related links: every such link of a
\* persisted item document is a relative href that, resolved against the item's
\* directory items/<kind>/<id>/, names the document of a persisted item.
C27_RelationLinksResolve ==
    \A k \in Kinds :
        (disk[k].state = "ok" /\ disk[k].dir = items_root(k)) =>
            \A id \in DOMAIN disk[k].docs :
                \A i \in 1..Len(disk[k].docs[id].links) :
                    /\ disk[k].docs[id].links[i].href # None
                    /\ Head(disk[k].docs[id].links[i].href[1]) # OutputDir
                    /\ Resolve(items_root(k) \o <<id>>, disk[k].docs[id].links[i].href[1])
                          \in C27_Documents

\* the links that are written are those the run made: each names, at the place
\* the sub-catalogs are saved to before they are moved, an item of the run
C27_RelationLinksNameSavedPlace ==
    \A k \in Kinds :
        (disk[k].state = "ok" /\ disk[k].dir = items_root(k)) =>
            \A id \in DOMAIN disk[k].docs :
                \A i \in 1..Len(disk[k].docs[id].links) :
                    \E k2 \in Kinds :
                        disk[k].docs[id].links[i].href
                            = Some(<<OutputDir>>
                                   \o item_href(catalog_root(k2),
                                                disk[k].docs[id].links[i].title))

\* C28: in memory and as persisted, each sub-catalog holds at most one item per
\* identifier: no id comes twice among the items of a kind, nor among the item
\* links of a persisted catalog.json.
C28_OneItemPerId ==
    \A k \in Kinds :
        /\ \A i, j \in 1..Len(catalogs[k]) :
              catalogs[k][i].id = catalogs[k][j].id => i = j
        /\ disk[k].state = "ok" =>
              \A i, j \in 1..Len(disk[k].links) :
                  disk[k].links[i] = disk[k].links[j] => i = j

C28_Step ==
    (pc = "scan" /\ args.incremental) =>
        \A k \in Kinds :
            \A j \in (Len(catalogs[k]) + 1)..Len(catalogs'[k]) :
                catalogs'[k][j].id \notin IdSet(catalogs[k])

\* in an incremental run the loop over the records adds no item whose id the
\* sub-catalog already holds
C28_IncrementalAddsNoSecond == [][C28_Step]_vars

\* C29: the download makes between one and `retries` attempts; before attempt
\* number n it has slept n - 1 times, backoff_seconds * k after the failed
\* attempt k, so never after the last attempt; it returns at the attempt that
\* succeeds, without a sleep after it, and it raises only when attempt number
\* `retries` has failed, the error of that attempt.
C29_RetryWithBackoff ==
    fout # <<>> =>
        /\ fout.attempt \in 1..fin.retries
        /\ Len(fout.slept) = fout.attempt - 1
        /\ \A k \in 1..Len(fout.slept) : fout.slept[k] = fin.backoff_seconds * k
        /\ fout.pc = "sleep" =>
              (fout.attempt < fin.retries /\ fout.last_error # None
               /\ fout.last_error[1].attempt = fout.attempt)
        /\ fout.pc = "returned" => fout.raised = None
        /\ fout.pc = "raised" =>
              /\ fout.attempt = fin.retries
              /\ fout.raised # None
              /\ fout.raised[1].attempt = fin.retries
              /\ fout.raised = fout.last_error

\* once the download has returned or raised it takes no further step
C29_Final ==
    (fout # <<>> /\ fout.pc \in {"returned", "raised"}) => UNCHANGED fout

C29_StopsAtTheEnd == [][C29_Final]_vars

\* C29, the case: with four attempts allowed and a backoff of 2 the download
\* returned at its third attempt, after sleeps of 2 and 4
C29_ThirdAttemptSucceeds ==
    /\ fout # <<>>
    /\ fin.retries = 4
    /\ fout.pc = "returned"
    /\ fout.attempt = 3
    /\ fout.slept = <<2, 4>>

C29_AllAttemptsFail ==
    /\ fout # <<>>
    /\ fin.retries = 3
    /\ fout.pc = "raised"
    /\ fout.slept = <<1, 2>>

\* C30: when the handler has returned, uploaded_keys lists for each slice its
\* data key and then its sidecar key, no key is listed twice, and the bucket
\* holds under the two keys of every slice the files of that slice.
C30_EverySliceKeepsItsKeys ==
    (fout # <<>> /\ fout.pc = "returned") =>
        /\ Len(fout.uploaded) = 2 * Len(fin.times)
        /\ \A i \in 1..Len(fin.times) :
              /\ fout.uploaded[2 * i - 1].tree = "data"
              /\ fout.uploaded[2 * i].tree = "metadata"
              /\ fout.bucket[fout.uploaded[2 * i - 1]] = i
              /\ fout.bucket[fout.uploaded[2 * i]] = i
        /\ \A i, j \in 1..Len(fout.uploaded) :
              fout.uploaded[i] = fout.uploaded[j] => i = j

\* the part that holds: the keys are listed in pairs, data then sidecar of one
\* hour, and a file whose slices span less than a day loses none
C30_PairsAndShortFiles ==
    (fout # <<>> /\ fout.pc = "returned") =>
        /\ Len(fout.uploaded) = 2 * Len(fin.times)
        /\ \A i \in 1..Len(fin.times) :
              /\ fout.uploaded[2 * i - 1].tree = "data"
              /\ fout.uploaded[2 * i].tree = "metadata"
              /\ fout.uploaded[2 * i].hour = fout.uploaded[2 * i - 1].hour
        /\ fin.times[Len(fin.times)] - fin.times[1] < 24 =>
              \A i \in 1..Len(fin.times) : fout.bucket[fout.uploaded[2 * i - 1]] = i

====
